---- MODULE Spec2Model ----
(***************************************************************************)
(* A model of trading_analyze.data_pipeline.validator.DataValidator: the   *)
(* data directory it reads (features/data.csv, instruments/all.txt), the   *)
(* report file it writes, and its operations validate_qlib_data and        *)
(* quick_check with the three checkers behind them.                        *)
(*                                                                         *)
(* A cell of the feature table is a number, an empty cell (read_csv turns  *)
(* it into NaN) or text that is no number/date.  A datetime is counted in  *)
(* half days since the first day of the table (0 = day 0 00:00,            *)
(* 1 = day 0 12:00, 2 = day 1 00:00, ...), so that a time of day exists.   *)
(* Python exceptions are values: every helper returns [exc, val] with      *)
(* exc = "" for a normal return and the exception's name otherwise.        *)
(***************************************************************************)
EXTENDS Integers, Sequences, FiniteSets, TLC

\* The number of changes the environment makes to the fixture data directory.
MaxEdits == 2

\* The number of reports written one after the other.
MaxRuns == 2

----------------------------------------------------------------------------
\* Values

N(v) == [kind |-> "num", val |-> v]
Null == [kind |-> "null", val |-> 0]
Text == [kind |-> "text", val |-> 0]

IsNum(c) == c.kind = "num"

Return(v) == [exc |-> "", val |-> v]
Raise(e) == [exc |-> e, val |-> 0]

\* A Python dict with no key.
EmptyDict == [keys |-> {}]

required_columns == <<"instrument", "datetime", "$open", "$high", "$low", "$close", "$volume">>
price_columns == <<"$open", "$high", "$low", "$close">>
required_dirs == <<"features", "instruments">>
required_files == <<"features/data.csv", "instruments/all.txt">>

Range(s) == {s[i] : i \in DOMAIN s}

Abs(x) == IF x < 0 THEN -x ELSE x

----------------------------------------------------------------------------
\* IEEE-754 binary64 arithmetic, as far as pct_change().abs() > 0.3 needs it.
\* A positive double is [e, f]: f the 52 fraction bits of its mantissa as
\* FractionLimbs digits of base Base (most significant first), standing for
\* (1 + f / 2^52) * 2^e.  Digits keep every product within TLC's integers.

Base == 8192
FractionLimbs == 4

RECURSIVE Pow2(_)
Pow2(n) == IF n = 0 THEN 1 ELSE 2 * Pow2(n - 1)

RECURSIVE FloorLog2(_, _, _)
\* The largest e >= k with b * 2^e <= a, given b * 2^k <= a.
FloorLog2(a, b, k) == IF b * Pow2(k + 1) <= a THEN FloorLog2(a, b, k + 1) ELSE k

RECURSIVE CeilLog2(_, _, _)
\* The smallest k >= j with a * 2^k >= b.
CeilLog2(a, b, j) == IF a * Pow2(j) >= b THEN j ELSE CeilLog2(a, b, j + 1)

\* The exponent e with 2^e <= a / b < 2^(e+1), for integers a, b > 0.
Exponent(a, b) == IF a >= b THEN FloorLog2(a, b, 0) ELSE -CeilLog2(a, b, 1)

\* The digits with their carries propagated: one digit more, the carry out
\* of the most significant one in front.
Carry(digits) ==
    LET n == Len(digits)
        \* C[i]: the carry out of the i least significant digits
        C[i \in 0..n] == IF i = 0 THEN 0 ELSE (digits[n + 1 - i] + C[i - 1]) \div Base
    IN  [i \in 1..(n + 1) |-> IF i = 1 THEN C[n] ELSE (digits[i - 1] + C[n + 1 - i]) % Base]

\* x > y for digit sequences of one length.
DigitsGreater(x, y) ==
    \E i \in DOMAIN x : x[i] > y[i] /\ \A j \in 1..(i - 1) : x[j] = y[j]

\* The first k digits of rem / den (rem < den) by long division, and the remainder.
LongDivision(rem, den) ==
    LET F[k \in 0..FractionLimbs] ==
            IF k = 0 THEN [q |-> <<>>, rem |-> rem]
            ELSE [q |-> Append(F[k - 1].q, (F[k - 1].rem * Base) \div den),
                  rem |-> (F[k - 1].rem * Base) % den]
    IN  F[FractionLimbs]

\* The double of exponent e and fraction d.q + d.rem / den digits, rounded
\* to the nearest, ties to even.
RoundNearestEven(e, d, den) ==
    LET up == \/ 2 * d.rem > den
              \/ 2 * d.rem = den /\ d.q[FractionLimbs] % 2 = 1
        next == Carry([i \in 1..FractionLimbs |-> IF i = FractionLimbs THEN d.q[i] + 1 ELSE d.q[i]])
    IN  IF ~up THEN [e |-> e, f |-> d.q]
        ELSE IF next[1] = 1 THEN [e |-> e + 1, f |-> [i \in 1..FractionLimbs |-> 0]]
        ELSE [e |-> e, f |-> Tail(next)]

\* num / den in [1, 2) times 2^e
DivideScaled(e, num, den) == RoundNearestEven(e, LongDivision(num - den, den), den)

\* a / b = (num / den) * 2^e with num / den in [1, 2)
DivideAt(a, b, e) ==
    DivideScaled(e, IF e >= 0 THEN a ELSE a * Pow2(-e), IF e >= 0 THEN b * Pow2(e) ELSE b)

\* a / b rounded to the nearest double, ties to even (a, b integers > 0).
Divide(a, b) == DivideAt(a, b, Exponent(a, b))

\* The literal 0.3 of the source: the double nearest to 3/10, which is
\* (2^52 + f) / 2^54.
Threshold == Divide(3, 10)

\* abs(x - 1) > 0.3 for a positive double x.  For x in [1/2, 2) the
\* subtraction is exact (both operands within a factor 2): with F the
\* fraction of x and T that of 0.3, x - 1 = 4F / 2^54 for x >= 1 and
\* 1 - x = (2^53 - 2F) / 2^54 for x < 1, against 0.3 = (2^52 + T) / 2^54.
\* Outside [1/2, 2) the difference is at least 1/2 in absolute value.
AbsChangeExceeds(x) ==
    IF x.e >= 1 \/ x.e <= -2 THEN TRUE
    ELSE IF x.e = 0
         THEN DigitsGreater(Carry([i \in 1..FractionLimbs |-> 4 * x.f[i]]),
                            <<1>> \o Threshold.f)
         ELSE DigitsGreater(<<1>> \o [i \in 1..FractionLimbs |-> 0],
                            Carry([i \in 1..FractionLimbs |-> 2 * x.f[i] + Threshold.f[i]]))

----------------------------------------------------------------------------
\* The data directory.  A snapshot d of it has
\*   dirs      the directories that exist, among root (data_dir), features, instruments
\*   locked    those of them without search permission (stat below them fails)
\*   readonly  data_dir takes no new file content
\*   csv       features/data.csv: "missing", "empty" (zero bytes) or "table"
\*   columns   the header of the table, rows its lines
\*   list      instruments/all.txt: "missing" or "present", symbols its lines

DataColumns == Range(required_columns)

\* What stat() answers for a path below data_dir.
Stat(d, path) ==
    IF "root" \notin d.dirs THEN "ENOENT"
    ELSE IF "root" \in d.locked THEN "EACCES"
    ELSE IF path \in Range(required_dirs)
         THEN IF path \in d.dirs THEN "ok" ELSE "ENOENT"
    ELSE LET parent == IF path = "features/data.csv" THEN "features" ELSE "instruments"
             there == IF path = "features/data.csv" THEN d.csv # "missing"
                      ELSE d.list # "missing"
         IN  IF parent \notin d.dirs THEN "ENOENT"
             ELSE IF parent \in d.locked THEN "EACCES"
             ELSE IF there THEN "ok" ELSE "ENOENT"

\* pathlib.Path.exists(): False for a path that is not there.  A permission
\* error is re-raised by the interpreters whose Path.exists ignores only
\* ENOENT, ENOTDIR, EBADF and ELOOP, and is False in those that ask
\* os.path.exists: reraise says which interpreter runs.
exists(d, path, reraise) ==
    LET st == Stat(d, path)
    IN  IF st = "ok" THEN Return(TRUE)
        ELSE IF st = "EACCES" /\ reraise THEN Raise("PermissionError")
        ELSE Return(FALSE)

\* open(path) for reading.
open_read(d, path) ==
    LET st == Stat(d, path)
    IN  IF st = "ok" THEN Return(TRUE)
        ELSE IF st = "EACCES" THEN Raise("PermissionError")
        ELSE Raise("FileNotFoundError")

\* A line of data.csv with more fields than the header has.
TooManyFields(r) == "extra" \in DOMAIN r

\* pd.read_csv(data_file): the table, or the exception of a file that cannot
\* be opened, holds no header, or has a line with too many fields.
read_csv(d) ==
    LET f == open_read(d, "features/data.csv")
    IN  IF f.exc # "" THEN f
        ELSE IF d.csv = "empty" THEN Raise("EmptyDataError")
        ELSE IF \E i \in DOMAIN d.rows : TooManyFields(d.rows[i]) THEN Raise("ParserError")
        ELSE Return([columns |-> d.columns, rows |-> d.rows])

\* pd.read_csv(data_file, nrows=n): the parser stops after n lines of data,
\* and what follows them is not looked at.
read_csv_nrows(d, n) ==
    LET f == open_read(d, "features/data.csv")
        last == IF Len(d.rows) < n THEN Len(d.rows) ELSE n
    IN  IF f.exc # "" THEN f
        ELSE IF d.csv = "empty" THEN Raise("EmptyDataError")
        ELSE IF \E i \in 1..last : TooManyFields(d.rows[i]) THEN Raise("ParserError")
        ELSE Return([columns |-> d.columns, rows |-> SubSeq(d.rows, 1, last)])

----------------------------------------------------------------------------
\* pandas on the table t = [columns, rows]

IsNullCell(col, v) == IF col = "instrument" THEN v = "" ELSE v.kind = "null"

\* A column holding text that is no number is of dtype object.
HasText(t, col) == \E i \in DOMAIN t.rows : col # "instrument" /\ t.rows[i][col].kind = "text"

\* data[col]
getitem(t, col) == IF col \in t.columns THEN Return(col) ELSE Raise("KeyError")

\* data[col] <op> 0 and the like: comparing an object column with a number raises.
numeric(t, col) ==
    LET c == getitem(t, col)
    IN  IF c.exc # "" THEN c
        ELSE IF HasText(t, col) THEN Raise("TypeError")
        ELSE c

\* data['datetime'] = pd.to_datetime(data['datetime'])
to_datetime(t) ==
    LET c == getitem(t, "datetime")
    IN  IF c.exc # "" THEN c
        ELSE IF HasText(t, "datetime") THEN Raise("ValueError")
        ELSE Return(t)

\* data['instrument'].unique(): the values in order of first appearance.  The
\* empty cell (NaN) is left out: data['instrument'] == NaN selects no row.
unique_instruments(t) ==
    LET first(i) == \A j \in 1..(i - 1) : t.rows[j]["instrument"] # t.rows[i]["instrument"]
        F[i \in 0..Len(t.rows)] ==
            IF i = 0 THEN <<>>
            ELSE IF first(i) /\ t.rows[i]["instrument"] # ""
                 THEN Append(F[i - 1], t.rows[i]["instrument"])
                 ELSE F[i - 1]
    IN  F[Len(t.rows)]

\* data[data['instrument'] == instrument]
rows_of(t, instrument) ==
    LET F[i \in 0..Len(t.rows)] ==
            IF i = 0 THEN <<>>
            ELSE IF t.rows[i]["instrument"] = instrument
                 THEN Append(F[i - 1], t.rows[i])
                 ELSE F[i - 1]
    IN  F[Len(t.rows)]

\* Whether row a sorts strictly before row b by datetime (NaT last).
DatetimeBefore(a, b) ==
    /\ IsNum(a["datetime"])
    /\ ~IsNum(b["datetime"]) \/ a["datetime"].val < b["datetime"].val

RECURSIVE Insert(_, _)
Insert(sorted, r) ==
    IF sorted = <<>> THEN <<r>>
    ELSE IF DatetimeBefore(r, Head(sorted)) THEN <<r>> \o sorted
    ELSE <<Head(sorted)>> \o Insert(Tail(sorted), r)

\* instrument_data.sort_values('datetime'): ascending, rows of one datetime
\* in file order (numpy sorts the few rows of the model by insertion).
sort_values(rs) ==
    LET F[i \in 0..Len(rs)] == IF i = 0 THEN <<>> ELSE Insert(F[i - 1], rs[i])
    IN  F[Len(rs)]

\* The calendar date of a datetime (two half days a day).
DateOf(h) == h \div 2

\* (b - a).days of two timestamps: whole days, rounded down.
TimedeltaDays(a, b) == (b - a) \div 2

----------------------------------------------------------------------------
\* DataValidator._check_data_quality

large_gap_days == 7

\* The quality_results dict with one more finding: the counter of its
\* severity raised and the entry appended to issues_detail.
add_critical(q, entry) ==
    [critical_issues |-> q.critical_issues + 1,
     warnings |-> q.warnings,
     issues_detail |-> Append(q.issues_detail, entry)]

\* As add_warning, the finding counted with the critical ones.
add_warning_as_critical(q, entry) ==
    [critical_issues |-> q.critical_issues + 1,
     warnings |-> q.warnings,
     issues_detail |-> Append(q.issues_detail, entry)]

add_warning(q, entry) ==
    [critical_issues |-> q.critical_issues,
     warnings |-> q.warnings + 1,
     issues_detail |-> Append(q.issues_detail, entry)]

\* data.isnull().sum(), per column of the table
null_counts(t) ==
    [col \in t.columns |-> Cardinality({i \in DOMAIN t.rows : IsNullCell(col, t.rows[i][col])})]

\* As null_check, the detail holding the count of every column.
null_check_all_columns(t, q) ==
    IF \E col \in t.columns : null_counts(t)[col] > 0
    THEN add_critical(q, [type |-> "critical", issue |-> "null_values",
                          detail |-> null_counts(t)])
    ELSE q

\* The null check: one entry for the whole table.
null_check(t, q) ==
    LET counts == null_counts(t)
        with_nulls == {col \in t.columns : counts[col] > 0}
    IN  IF with_nulls # {}
        THEN add_critical(q, [type |-> "critical", issue |-> "null_values",
                              detail |-> [col \in with_nulls |-> counts[col]]])
        ELSE q

\* As price_not_positive, by data[col] < 0.
price_negative(v) == IsNum(v) /\ v.val < 0

\* data[col] <= 0 for one cell (False for NaN)
price_not_positive(v) == IsNum(v) /\ v.val <= 0

RECURSIVE negative_price_check(_, _, _)
\* The loop over price_columns, from the k-th column on.
negative_price_check(t, q, k) ==
    IF k > Len(price_columns) THEN Return(q)
    ELSE LET col == price_columns[k]
             c == numeric(t, col)
             negative_count == Cardinality({i \in DOMAIN t.rows : price_not_positive(t.rows[i][col])})
         IN  IF c.exc # "" THEN c
             ELSE IF negative_count > 0
                  THEN negative_price_check(t,
                           add_critical(q, [type |-> "critical", issue |-> "negative_prices",
                                            column |-> col, count |-> negative_count]),
                           k + 1)
                  ELSE negative_price_check(t, q, k + 1)

\* data['$volume'] <= 0 for one cell
volume_not_positive(v) == IsNum(v) /\ v.val <= 0

\* As zero_volume_check, the finding counted as critical.
zero_volume_check_critical(t, q) ==
    LET c == numeric(t, "$volume")
        zero_volume_count == Cardinality({i \in DOMAIN t.rows : volume_not_positive(t.rows[i]["$volume"])})
    IN  IF c.exc # "" THEN c
        ELSE IF zero_volume_count > 0
             THEN Return(add_critical(q, [type |-> "critical", issue |-> "zero_volume",
                                          count |-> zero_volume_count]))
             ELSE Return(q)

zero_volume_check(t, q) ==
    LET c == numeric(t, "$volume")
        zero_volume_count == Cardinality({i \in DOMAIN t.rows : volume_not_positive(t.rows[i]["$volume"])})
    IN  IF c.exc # "" THEN c
        ELSE IF zero_volume_count > 0
             THEN Return(add_warning(q, [type |-> "warning", issue |-> "zero_volume",
                                         count |-> zero_volume_count]))
             ELSE Return(q)

\* a < b on two cells of numeric columns (False when either is NaN)
Less(a, b) == IsNum(a) /\ IsNum(b) /\ a.val < b.val

Greater(a, b) == Less(b, a)

\* As illogical_row, by high < low alone.
illogical_row_high_low(r) == Less(r["$high"], r["$low"])

\* The mask of the OHLC check for one row.
illogical_row(r) ==
    \/ Less(r["$high"], r["$low"])
    \/ Less(r["$high"], r["$open"])
    \/ Less(r["$high"], r["$close"])
    \/ Greater(r["$low"], r["$open"])
    \/ Greater(r["$low"], r["$close"])

illogical_ohlc_check(t, q) ==
    LET illogical_prices == Cardinality({i \in DOMAIN t.rows : illogical_row(t.rows[i])})
    IN  IF illogical_prices > 0
        THEN add_critical(q, [type |-> "critical", issue |-> "illogical_ohlc",
                              count |-> illogical_prices])
        ELSE q

\* (date_diff > 7) for the sorted rows i - 1 and i of one instrument; the
\* difference to or from NaT is NaT, which is not greater.
large_gap(rs, i) ==
    /\ IsNum(rs[i - 1]["datetime"])
    /\ IsNum(rs[i]["datetime"])
    /\ TimedeltaDays(rs[i - 1]["datetime"].val, rs[i]["datetime"].val) > large_gap_days

\* (date_diff > 7).sum() over the sorted rows of one instrument
count_large_gaps(rs) == Cardinality({i \in 2..Len(rs) : large_gap(rs, i)})

large_gaps(t, instrument) == count_large_gaps(sort_values(rows_of(t, instrument)))

\* The loop over the instruments u: an entry for each with a large gap.
discontinuity_issues(t, u) ==
    LET F[i \in 0..Len(u)] ==
            IF i = 0 THEN <<>>
            ELSE IF large_gaps(t, u[i]) > 0
                 THEN Append(F[i - 1], [instrument |-> u[i], large_gaps |-> large_gaps(t, u[i])])
                 ELSE F[i - 1]
    IN  F[Len(u)]

discontinuity_warning(q, issues) ==
    IF issues # <<>>
    THEN add_warning(q, [type |-> "warning", issue |-> "data_discontinuity",
                         instruments |-> issues])
    ELSE q

discontinuity_check(t, q) ==
    IF getitem(t, "instrument").exc # "" THEN getitem(t, "instrument")
    ELSE Return(discontinuity_warning(q, discontinuity_issues(t, unique_instruments(t))))

\* The close the change of row i is measured from and the close of row i:
\* pct_change() fills a NaN with the last close before it (fill_method
\* 'pad', the default of the pandas releases that have one).
padded_close(rs, i) ==
    LET known == {j \in 1..i : IsNum(rs[j]["$close"])}
    IN  IF known = {} THEN Null
        ELSE rs[CHOOSE j \in known : \A k \in known : k <= j]["$close"]

\* abs(cur / prev - 1) > 0.3 in doubles: NaN (not greater) when a close is
\* missing or both are 0, infinite when only prev is 0.
extreme_change(prev, cur) ==
    IF ~IsNum(prev) \/ ~IsNum(cur) THEN FALSE
    ELSE IF prev.val = 0 THEN cur.val # 0
    ELSE IF cur.val = 0 THEN TRUE
    ELSE IF (cur.val < 0) # (prev.val < 0) THEN TRUE
    ELSE AbsChangeExceeds(Divide(Abs(cur.val), Abs(prev.val)))

\* (price_change > 0.3).sum() over the sorted rows of one instrument
count_extreme_changes(rs) ==
    Cardinality({i \in 2..Len(rs) :
                    extreme_change(padded_close(rs, i - 1), padded_close(rs, i))})

extreme_count(t, instrument) == count_extreme_changes(sort_values(rows_of(t, instrument)))

\* The loop over the instruments u: an entry for each with an extreme change.
extreme_changes(t, u) ==
    LET F[i \in 0..Len(u)] ==
            IF i = 0 THEN <<>>
            ELSE IF extreme_count(t, u[i]) > 0
                 THEN Append(F[i - 1], [instrument |-> u[i],
                                        extreme_changes |-> extreme_count(t, u[i])])
                 ELSE F[i - 1]
    IN  F[Len(u)]

extreme_warning(q, changes) ==
    IF changes # <<>>
    THEN add_warning(q, [type |-> "warning", issue |-> "extreme_price_changes",
                         instruments |-> changes])
    ELSE q

extreme_change_check(t, q) ==
    extreme_warning(q, extreme_changes(t, unique_instruments(t)))

\* As quality_check_failed, the failure reported as a warning.
quality_check_failed_as_warning(e) ==
    [critical_issues |-> 0, warnings |-> 1,
     issues_detail |-> <<[type |-> "warning", issue |-> "quality_check_failed", error |-> e]>>]

\* The except branch: what was found before the exception is dropped.
quality_check_failed(e) ==
    [critical_issues |-> 1, warnings |-> 0,
     issues_detail |-> <<[type |-> "critical", issue |-> "quality_check_failed", error |-> e]>>]

\* The try block: the checks in the order of the source, the first exception
\* ending it.
no_findings == [critical_issues |-> 0, warnings |-> 0, issues_detail |-> <<>>]

\* The statements of the try block after the first: each is skipped once an
\* exception r is raised, and works on the value of r otherwise.
zero_volume_step(t, r) == IF r.exc # "" THEN r ELSE zero_volume_check(t, r.val)

illogical_ohlc_step(t, r) == IF r.exc # "" THEN r ELSE Return(illogical_ohlc_check(t, r.val))

discontinuity_step(t, r) == IF r.exc # "" THEN r ELSE discontinuity_check(t, r.val)

extreme_change_step(t, r) == IF r.exc # "" THEN r ELSE Return(extreme_change_check(t, r.val))

\* As table_checks, the high/low check made before the volume check.
table_checks_ohlc_first(t) ==
    extreme_change_step(t,
        discontinuity_step(t,
            zero_volume_step(t,
                illogical_ohlc_step(t,
                    negative_price_check(t, null_check(t, no_findings), 1)))))

\* The checks on the table, in the order of the source.
table_checks(t) ==
    extreme_change_step(t,
        discontinuity_step(t,
            illogical_ohlc_step(t,
                zero_volume_step(t,
                    negative_price_check(t, null_check(t, no_findings), 1)))))

to_datetime_step(r) == IF r.exc # "" THEN r ELSE to_datetime(r.val)

table_checks_step(r) == IF r.exc # "" THEN r ELSE table_checks(r.val)

\* The try block: the first exception ends it.
quality_checks(d) == table_checks_step(to_datetime_step(read_csv(d)))

except_quality(r) == IF r.exc # "" THEN quality_check_failed(r.exc) ELSE r.val

_check_data_quality(d) == except_quality(quality_checks(d))

----------------------------------------------------------------------------
\* DataValidator._validate_directory_structure: the four exists() calls in
\* the order of the source; the first that raises ends the method.
_validate_directory_structure(d, reraise) ==
    LET paths == required_dirs \o required_files
        found == [i \in DOMAIN paths |-> exists(d, paths[i], reraise)]
        missing_dirs == {i \in DOMAIN required_dirs : ~found[i].val}
        missing_files == {i \in DOMAIN paths : i > Len(required_dirs) /\ ~found[i].val}
    IN  IF \E i \in DOMAIN paths : found[i].exc # ""
        THEN Raise("PermissionError")
        ELSE Return(missing_dirs = {} /\ missing_files = {})

----------------------------------------------------------------------------
\* DataValidator._validate_data_files

\* The datetimes of the column that are not NaT.
known_datetimes(t) ==
    {t.rows[i]["datetime"].val : i \in {j \in DOMAIN t.rows : IsNum(t.rows[j]["datetime"])}}

\* data['datetime'].min(): NaT when no row has a datetime.
datetime_min(t) ==
    IF known_datetimes(t) = {} THEN Null
    ELSE N(CHOOSE h \in known_datetimes(t) : \A g \in known_datetimes(t) : h <= g)

\* data['datetime'].max()
datetime_max(t) ==
    IF known_datetimes(t) = {} THEN Null
    ELSE N(CHOOSE h \in known_datetimes(t) : \A g \in known_datetimes(t) : h >= g)

\* len(data['datetime'].dt.date.unique()): NaT is one of the values.
trading_days(t) ==
    LET dates == {DateOf(t.rows[i]["datetime"].val) : i \in {j \in DOMAIN t.rows : IsNum(t.rows[j]["datetime"])}}
        nat == IF \E i \in DOMAIN t.rows : ~IsNum(t.rows[i]["datetime"]) THEN 1 ELSE 0
    IN  Cardinality(dates) + nat

missing_columns(t) == {col \in DataColumns : col \notin t.columns}

\* set(data['instrument'].unique())
instruments_in_data(t) == {t.rows[i]["instrument"] : i \in DOMAIN t.rows}

\* As stats_of, the two differences taken the other way round.
stats_of_differences_swapped(t, instruments_from_file) ==
    [total_records |-> Len(t.rows),
     instruments_count |-> Cardinality(instruments_in_data(t)),
     date_range |-> [start |-> datetime_min(t),
                     end |-> datetime_max(t),
                     trading_days |-> trading_days(t)],
     missing_in_data |-> Cardinality(instruments_in_data(t) \ instruments_from_file),
     missing_in_file |-> Cardinality(instruments_from_file \ instruments_in_data(t))]

\* The stats dict, from the table and the lines of all.txt.
stats_of(t, instruments_from_file) ==
    [total_records |-> Len(t.rows),
     instruments_count |-> Cardinality(instruments_in_data(t)),
     date_range |-> [start |-> datetime_min(t),
                     end |-> datetime_max(t),
                     trading_days |-> trading_days(t)],
     missing_in_data |-> Cardinality(instruments_from_file \ instruments_in_data(t)),
     missing_in_file |-> Cardinality(instruments_in_data(t) \ instruments_from_file)]

\* stats from the table with its datetimes converted
stats_step(d, r) == IF r.exc # "" THEN r ELSE Return(stats_of(r.val, d.symbols))

\* all.txt read, then the datetimes converted
instruments_file_step(d, t0) ==
    IF open_read(d, "instruments/all.txt").exc # "" THEN open_read(d, "instruments/all.txt")
    ELSE stats_step(d, to_datetime(t0))

\* the required columns looked for in the table read
missing_columns_step(d, r) ==
    IF r.exc # "" THEN r
    ELSE IF missing_columns(r.val) # {} THEN Return(EmptyDict)
    ELSE instruments_file_step(d, r.val)

\* The try block.  The value is the stats dict, empty when columns are missing.
data_files(d) == missing_columns_step(d, read_csv(d))

\* return False, {} after missing columns or an exception, True, stats otherwise
except_data_files(r) ==
    IF r.exc # "" \/ r.val = EmptyDict
    THEN [valid |-> FALSE, stats |-> EmptyDict]
    ELSE [valid |-> TRUE, stats |-> r.val]

\* The pair (valid, stats) the method returns.
_validate_data_files(d) == except_data_files(data_files(d))

----------------------------------------------------------------------------
\* DataValidator._generate_validation_report

\* No validation_report.txt in the data directory.
NoReport == [written |-> FALSE]

\* open(report_file, 'w')
open_write(d) ==
    IF "root" \notin d.dirs THEN Raise("FileNotFoundError")
    ELSE IF "root" \in d.locked \/ d.readonly THEN Raise("PermissionError")
    ELSE Return(TRUE)

\* The lines written for one entry of issues_detail.
issue_block(issue) ==
    [type |-> issue.type,
     issue |-> issue.issue,
     count |-> IF "count" \in DOMAIN issue THEN <<issue.count>> ELSE <<>>,
     detail |-> IF "detail" \in DOMAIN issue THEN <<issue.detail>> ELSE <<>>]

\* The stats block: nothing for an empty dict.
stats_block(stats) ==
    IF stats = EmptyDict THEN EmptyDict
    ELSE [total_records |-> stats.total_records,
          instruments_count |-> stats.instruments_count,
          start |-> stats.date_range.start,
          end |-> stats.date_range.end,
          trading_days |-> stats.date_range.trading_days]

\* As write_report, the file opened for appending: what the report of an
\* earlier run lists stays in it.
write_report_appending(d, results, old, now) ==
    LET f == open_write(d)
        keyerror == results.data_quality = EmptyDict
        before == IF old.written THEN old
                  ELSE [errors |-> <<>>, warnings |-> <<>>, issues |-> <<>>]
        file == [written |-> TRUE,
                 time |-> now,
                 is_valid |-> results.is_valid,
                 n_errors |-> Len(results.errors),
                 n_warnings |-> Len(results.warnings),
                 errors |-> before.errors \o results.errors,
                 warnings |-> before.warnings \o results.warnings,
                 stats |-> stats_block(results.stats),
                 issues |-> before.issues \o
                            (IF keyerror THEN <<>>
                             ELSE [i \in DOMAIN results.data_quality.issues_detail |->
                                      issue_block(results.data_quality.issues_detail[i])]),
                 complete |-> ~keyerror]
    IN  IF f.exc # "" THEN [exc |-> f.exc, file |-> old]
        ELSE [exc |-> IF keyerror THEN "KeyError" ELSE "", file |-> file]

\* The try block: the exception it ends with and the file it leaves.  Once
\* opened the file is truncated and holds what was written before an
\* exception, the time of pd.Timestamp.now() in its second line; results['data_quality']['issues_detail'] is a KeyError when
\* data_quality is still the empty dict.
write_report(d, results, old, now) ==
    LET f == open_write(d)
        keyerror == results.data_quality = EmptyDict
        file == [written |-> TRUE,
                 time |-> now,
                 is_valid |-> results.is_valid,
                 n_errors |-> Len(results.errors),
                 n_warnings |-> Len(results.warnings),
                 errors |-> results.errors,
                 warnings |-> results.warnings,
                 stats |-> stats_block(results.stats),
                 issues |-> IF keyerror THEN <<>>
                            ELSE [i \in DOMAIN results.data_quality.issues_detail |->
                                     issue_block(results.data_quality.issues_detail[i])],
                 complete |-> ~keyerror]
    IN  IF f.exc # "" THEN [exc |-> f.exc, file |-> old]
        ELSE [exc |-> IF keyerror THEN "KeyError" ELSE "", file |-> file]

\* As _generate_validation_report, a report that is there left as it is.
_generate_validation_report_once(d, results, old, now) ==
    [exc |-> "",
     file |-> IF old.written THEN old ELSE write_report(d, results, old, now).file]

\* As _generate_validation_report, without the except branch.
_generate_validation_report_unguarded(d, results, old, now) ==
    write_report(d, results, old, now)

\* except Exception: logged only.
_generate_validation_report(d, results, old, now) ==
    [exc |-> "", file |-> write_report(d, results, old, now).file]

----------------------------------------------------------------------------
\* DataValidator.validate_qlib_data

structure_error == "dir_structure_incomplete"
data_error == "data_file_validation_failed"
\* f"验证过程出错: {str(e)}"
process_error(e) == <<"validation_error", e>>

\* validation_results as the method starts with it
fresh_results ==
    [is_valid |-> TRUE, errors |-> <<>>, warnings |-> <<>>,
     stats |-> EmptyDict, data_quality |-> EmptyDict]

\* 1. the directory structure
structure_step(results, structure_valid) ==
    IF ~structure_valid
    THEN [results EXCEPT !.is_valid = FALSE, !.errors = Append(@, structure_error)]
    ELSE results

\* 2. the data files
data_files_step(results, df) ==
    IF ~df.valid
    THEN [results EXCEPT !.is_valid = FALSE, !.errors = Append(@, data_error)]
    ELSE [results EXCEPT !.stats = df.stats]

\* As quality_step, the critical issues not looked at.
quality_step_ignoring_critical(results, quality_results) ==
    [results EXCEPT !.data_quality = quality_results]

\* As quality_step, a warning of the quality check put on the warnings list.
quality_step_listing_warnings(results, quality_results) ==
    [results EXCEPT !.data_quality = quality_results,
                    !.is_valid = @ /\ quality_results.critical_issues = 0,
                    !.warnings = IF quality_results.warnings > 0
                                 THEN Append(@, "data_quality_warnings") ELSE @]

\* 3. the data quality
quality_step(results, quality_results) ==
    IF quality_results.critical_issues > 0
    THEN [results EXCEPT !.data_quality = quality_results, !.is_valid = FALSE]
    ELSE [results EXCEPT !.data_quality = quality_results]

\* The methods that call pd.read_csv(data_file) in one run, in the order of
\* their calls: each of the two checkers opens its try block with it.
table_loads == <<"_validate_data_files", "_check_data_quality">>

\* The try block of validate_qlib_data: the exception that ends it, if any,
\* validation_results as the block leaves it, and the loads of the table
\* made on the way.
checks_from(d, structure_valid) ==
    IF structure_valid.exc # ""
    THEN [exc |-> structure_valid.exc, results |-> fresh_results, loads |-> <<>>]
    ELSE [exc |-> "",
          results |-> quality_step(
                          data_files_step(
                              structure_step(fresh_results, structure_valid.val),
                              _validate_data_files(d)),
                          _check_data_quality(d)),
          loads |-> table_loads]

checks(d, reraise) == checks_from(d, _validate_directory_structure(d, reraise))

\* except Exception around the checks
except_checks(c) ==
    IF c.exc # ""
    THEN [c.results EXCEPT !.is_valid = FALSE,
                           !.errors = Append(@, process_error(c.exc))]
    ELSE c.results

\* return validation_results, after the call generated of the report
\* method, whose exception is the caller's.
return_results(c, generated) ==
    [op |-> "validate", exc |-> generated.exc, val |-> except_checks(c),
     logged |-> c.exc, loads |-> c.loads, file |-> generated.file]

\* As report_and_return, without the except branch around the checks.
report_and_return_unguarded(d, c, old, now) ==
    [op |-> "validate", exc |-> c.exc, val |-> c.results, logged |-> "",
     loads |-> c.loads,
     file |-> _generate_validation_report(d, c.results, old, now).file]

\* The report written and the results returned.  logged is the exception
\* text of logger.error in the except branch, "" when it was not entered.
report_and_return(d, c, old, now) ==
    return_results(c, _generate_validation_report(d, except_checks(c), old, now))

\* The call: what it returns or raises, what it logs, and the report file
\* it leaves.
validate_qlib_data(d, reraise, old, now) ==
    report_and_return(d, checks(d, reraise), old, now)

----------------------------------------------------------------------------
\* DataValidator.quick_check

\* all(col in data.columns for col in required_columns)
required_columns_step(r) ==
    IF r.exc # "" THEN r ELSE Return(\A col \in DataColumns : col \in r.val.columns)

\* data_file.exists() and instruments_file.exists(): the second is asked
\* only when the first is there.
both_exist(d, reraise, data_file) ==
    IF data_file.exc # "" \/ ~data_file.val THEN data_file
    ELSE exists(d, "instruments/all.txt", reraise)

\* pd.read_csv(data_file, nrows=10)
nrows == 10

\* As read_step, the whole table read.
read_step_whole_table(d, found) ==
    IF found.exc # "" THEN found
    ELSE IF ~found.val THEN Return(FALSE)
    ELSE required_columns_step(read_csv(d))

read_step(d, found) ==
    IF found.exc # "" THEN found
    ELSE IF ~found.val THEN Return(FALSE)
    ELSE required_columns_step(read_csv_nrows(d, nrows))

\* The try block.
quick_check_body(d, reraise) ==
    read_step(d, both_exist(d, reraise, exists(d, "features/data.csv", reraise)))

\* As except_quick_check, without the except branch.
except_quick_check_unguarded(r) ==
    [op |-> "quick_check", exc |-> r.exc, val |-> r.val]

\* except Exception: return False
except_quick_check(r) ==
    [op |-> "quick_check", exc |-> "", val |-> IF r.exc # "" THEN FALSE ELSE r.val]

quick_check(d, reraise) == except_quick_check(quick_check_body(d, reraise))

----------------------------------------------------------------------------
\* DataConverter.  A frame of raw data has a symbol (its key in data_dict),
\* the names of its columns and its rows; a row has its index value and a
\* cell for each column.  An index value is a timestamp in half days.

\* required_columns of _standardize_data
raw_columns == <<"open", "high", "low", "close", "volume">>

column_mapping ==
    [c \in Range(raw_columns) |->
        CASE c = "open" -> "$open"
          [] c = "high" -> "$high"
          [] c = "low" -> "$low"
          [] c = "close" -> "$close"
          [] c = "volume" -> "$volume"]

columns_order == <<"instrument", "datetime", "$open", "$high", "$low", "$close", "$volume">>

\* return None, and a frame returned
None == [none |-> TRUE, rows |-> <<>>]
Frame(rs) == [none |-> FALSE, rows |-> rs]

\* pd.to_datetime(data.index, utc=True): an index value that is no date raises.
index_step(data) ==
    IF \E i \in DOMAIN data.rows : data.rows[i].index.kind = "text"
    THEN Raise("ValueError")
    ELSE Return(data)

missing_raw_columns(data) == {c \in Range(raw_columns) : c \notin data.columns}

\* strftime('%Y-%m-%d'): the date without its time of day, which the cell
\* of data.csv holds as text (here the timestamp of its midnight); NaN for NaT.
strftime(v) == IF IsNum(v) THEN N(2 * ((v.val) \div 2)) ELSE Null

\* The raw column renamed to col.
raw_name(col) == CHOOSE c \in Range(raw_columns) : column_mapping[c] = col

\* A row of data_renamed[columns_order]
data_final_row(r, symbol) ==
    [col \in Range(columns_order) |->
        IF col = "instrument" THEN symbol
        ELSE IF col = "datetime" THEN strftime(r.index)
        ELSE r[raw_name(col)]]

data_final_rows(data, symbol) ==
    [i \in DOMAIN data.rows |-> data_final_row(data.rows[i], symbol)]

\* A row with a NaN: the symbol is a string and never one.
isna(r) == \E col \in Range(columns_order) \ {"instrument"} : r[col].kind = "null"

\* data_final.dropna()
dropna(rs) == SelectSeq(rs, LAMBDA r : ~isna(r))

\* data_final[data_final[col] > 0]: a cell of text compared with 0 raises.
filter_positive(rs, col) ==
    IF \E i \in DOMAIN rs : rs[i][col].kind = "text" THEN Raise("TypeError")
    ELSE Return(SelectSeq(rs, LAMBDA r : r[col].val > 0))

filter_positive_step(r, col) == IF r.exc # "" THEN r ELSE filter_positive(r.val, col)

RECURSIVE price_filters(_, _)
\* for col in price_cols, from the k-th column on
price_filters(r, k) ==
    IF k > Len(price_columns) THEN r
    ELSE price_filters(filter_positive_step(r, price_columns[k]), k + 1)

\* As logical_row, by high >= low alone.
logical_row_high_low(r) == r["$high"].val >= r["$low"].val

\* The mask of the high/low filter for one row.
logical_row(r) ==
    /\ r["$high"].val >= r["$low"].val
    /\ r["$high"].val >= r["$open"].val
    /\ r["$high"].val >= r["$close"].val
    /\ r["$low"].val <= r["$open"].val
    /\ r["$low"].val <= r["$close"].val

logical_step(r) == IF r.exc # "" THEN r ELSE Return(SelectSeq(r.val, LAMBDA row : logical_row(row)))

\* if len(data_final) == 0: return None
none_if_empty(r) ==
    IF r.exc # "" THEN r
    ELSE IF Len(r.val) = 0 THEN Return(None)
    ELSE Return(Frame(r.val))

\* The cleaning of data_final.
cleaned(rs) ==
    none_if_empty(logical_step(price_filters(filter_positive(dropna(rs), "$volume"), 1)))

\* The try block of _standardize_data.
standardize_body(data, symbol) ==
    IF index_step(data).exc # "" THEN index_step(data)
    ELSE IF missing_raw_columns(data) # {} THEN Return(None)
    ELSE cleaned(data_final_rows(data, symbol))

\* except Exception: return None
except_standardize(r) == IF r.exc # "" THEN None ELSE r.val

_standardize_data(data, symbol) == except_standardize(standardize_body(data, symbol))

----------------------------------------------------------------------------
\* The state: the data directory, the report in it, and the last call.

VARIABLES dirs, locked, readonly, csv, columns, rows, list, symbols, report, ret, edits,
          runs, cli, raw, conv, dl

vars == <<dirs, locked, readonly, csv, columns, rows, list, symbols, report, ret, edits,
          runs, cli, raw, conv, dl>>
data_vars == <<dirs, locked, readonly, csv, columns, rows, list, symbols>>

Dir == [dirs |-> dirs, locked |-> locked, readonly |-> readonly, csv |-> csv,
        columns |-> columns, rows |-> rows, list |-> list, symbols |-> symbols]

\* The runs of validate that two processes make at the same time: where
\* each is in validate_qlib_data, the results it holds, and the text it has
\* written to its open report file and not yet flushed.
Procs == {1, 2}

NoRuns ==
    [run |-> [p \in Procs |-> [pc |-> "idle", val |-> fresh_results, pending |-> <<>>]],
     overlapped |-> FALSE,
     last |-> 0]

\* No command of the command line has been run yet.
NoCommand == [cmd |-> "none", exit_code |-> 0, out |-> <<>>, err |-> <<>>]

\* The raw data of the test fixture: two symbols on two consecutive days.
RawRow(index, open, high, low, close, volume) ==
    [index |-> N(index), open |-> N(open), high |-> N(high), low |-> N(low),
     close |-> N(close), volume |-> N(volume)]

FixtureData ==
    <<[symbol |-> "A", columns |-> Range(raw_columns),
       rows |-> <<RawRow(0, 10, 14, 7, 10, 5), RawRow(2, 10, 14, 7, 10, 5)>>],
      [symbol |-> "B", columns |-> Range(raw_columns),
       rows |-> <<RawRow(0, 10, 14, 7, 10, 5), RawRow(2, 10, 14, 7, 10, 5)>>]>>

\* download_yahoo_finance: the tries per symbol and the first delay, in seconds.
max_retries == 3
retry_delay == 2

\* download_yahoo_finance has not been called yet.  In a call, k is the
\* place in symbols of the symbol of the outer loop and attempt the value
\* of the inner loop's variable; files are the symbols whose csv file was
\* written.
NoDownload ==
    [pc |-> "idle", symbols |-> <<>>, k |-> 1, attempt |-> 0, retry_delay |-> retry_delay,
     results |-> {}, failed_symbols |-> <<>>, files |-> {}]

\* No method of the converter has been called yet.
NoConversion == [op |-> "none"]

\* No call has been made yet.
NoCall == [op |-> "none", exc |-> "", val |-> FALSE]

Row(instrument, datetime, open, high, low, close, volume) ==
    [col \in DataColumns |->
        CASE col = "instrument" -> instrument
          [] col = "datetime" -> N(datetime)
          [] col = "$open" -> N(open)
          [] col = "$high" -> N(high)
          [] col = "$low" -> N(low)
          [] col = "$close" -> N(close)
          [] col = "$volume" -> N(volume)]

\* The table of the test fixture: two instruments on two consecutive days,
\* every row in order, with prices of which 30% is a whole number.
FixtureRows ==
    <<Row("A", 0, 10, 14, 7, 10, 5), Row("A", 2, 10, 14, 7, 10, 5),
      Row("B", 0, 10, 14, 7, 10, 5), Row("B", 2, 10, 14, 7, 10, 5)>>

Symbols == {"A", "B", "C"}

\* What a cell of a column may be changed to.
CellValues(col) ==
    IF col = "instrument" THEN Symbols \cup {""}
    ELSE IF col = "datetime" THEN {Null, Text, N(1), N(16)}
    ELSE IF col = "$volume" THEN {Null, Text, N(0), N(-1)}
    ELSE {Null, Text, N(0), N(-1), N(7), N(13)}

Init ==
    /\ dirs = {"root", "features", "instruments"}
    /\ locked = {}
    /\ readonly = FALSE
    /\ csv = "table"
    /\ columns = DataColumns
    /\ rows = FixtureRows
    /\ list = "present"
    /\ symbols = {"A", "B"}
    /\ report = NoReport
    /\ ret = NoCall
    /\ edits = 0
    /\ runs = NoRuns
    /\ cli = NoCommand
    /\ raw = FixtureData
    /\ conv = NoConversion
    /\ dl = NoDownload

\* The environment prepares the directory before the validator is called:
\* every change of the fixture counts.
Edit ==
    /\ edits < MaxEdits
    /\ ret.op = "none"
    /\ edits' = edits + 1
    /\ UNCHANGED <<ret, runs, cli, raw, conv, dl>>

SetCell ==
    /\ Edit
    /\ csv = "table"
    /\ \E i \in DOMAIN rows, col \in DataColumns :
         \E v \in CellValues(col) :
            /\ rows[i][col] # v
            /\ rows' = [rows EXCEPT ![i][col] = v]
    /\ UNCHANGED <<dirs, locked, readonly, csv, columns, list, symbols, report>>

DropColumn ==
    /\ Edit
    /\ csv = "table"
    /\ \E col \in columns : columns' = columns \ {col}
    /\ UNCHANGED <<dirs, locked, readonly, csv, rows, list, symbols, report>>

DeleteRow ==
    /\ Edit
    /\ csv = "table"
    /\ \E i \in DOMAIN rows :
         rows' = SubSeq(rows, 1, i - 1) \o SubSeq(rows, i + 1, Len(rows))
    /\ UNCHANGED <<dirs, locked, readonly, csv, columns, list, symbols, report>>

\* data.csv truncated to nothing, or removed.
LoseCsv ==
    /\ Edit
    /\ csv = "table"
    /\ csv' \in {"empty", "missing"}
    /\ columns' = {}
    /\ rows' = <<>>
    /\ UNCHANGED <<dirs, locked, readonly, list, symbols, report>>

SetSymbols ==
    /\ Edit
    /\ list = "present"
    /\ \E s \in Symbols : symbols' = IF s \in symbols THEN symbols \ {s} ELSE symbols \cup {s}
    /\ UNCHANGED <<dirs, locked, readonly, csv, columns, rows, list, report>>

RemoveList ==
    /\ Edit
    /\ list = "present"
    /\ list' = "missing"
    /\ symbols' = {}
    /\ UNCHANGED <<dirs, locked, readonly, csv, columns, rows, report>>

\* A directory removed with all that is in it.
RemoveDir ==
    /\ Edit
    /\ \E dir \in dirs :
         /\ dirs' = IF dir = "root" THEN {} ELSE dirs \ {dir}
         /\ locked' = locked \cap dirs'
         /\ IF dir \in {"root", "features"}
            THEN csv' = "missing" /\ columns' = {} /\ rows' = <<>>
            ELSE UNCHANGED <<csv, columns, rows>>
         /\ IF dir \in {"root", "instruments"}
            THEN list' = "missing" /\ symbols' = {}
            ELSE UNCHANGED <<list, symbols>>
         /\ report' = IF dir = "root" THEN NoReport ELSE report
    /\ UNCHANGED readonly

\* chmod: a directory loses its search permission, or data_dir its write permission.
Chmod ==
    /\ Edit
    /\ \/ \E dir \in dirs \ locked : locked' = locked \cup {dir} /\ UNCHANGED readonly
       \/ "root" \in dirs /\ ~readonly /\ readonly' = TRUE /\ UNCHANGED locked
    /\ UNCHANGED <<dirs, csv, columns, rows, list, symbols, report>>

\* The clock when a run writes its report: later than the time in the
\* report an earlier run left.
Now == IF report.written THEN report.time + 1 ELSE 1

\* As Validate, the required directories made where they are missing.
Validate_making_dirs ==
    /\ Now <= MaxRuns
    /\ \E reraise \in BOOLEAN :
         \E call \in {validate_qlib_data(Dir, reraise, report, Now)} :
             /\ ret' = [op |-> call.op, exc |-> call.exc, val |-> call.val,
                        logged |-> call.logged, loads |-> call.loads]
             /\ report' = call.file
    /\ dirs' = IF "root" \in dirs THEN dirs \cup {"features", "instruments"} ELSE dirs
    /\ UNCHANGED <<locked, readonly, csv, columns, rows, list, symbols, edits, runs, cli, raw, conv, dl>>

Validate ==
    /\ Now <= MaxRuns
    /\ \E reraise \in BOOLEAN :
         \E call \in {validate_qlib_data(Dir, reraise, report, Now)} :
             /\ ret' = [op |-> call.op, exc |-> call.exc, val |-> call.val,
                        logged |-> call.logged, loads |-> call.loads]
             /\ report' = call.file
    /\ UNCHANGED <<data_vars, edits, runs, cli, raw, conv, dl>>

QuickCheck ==
    /\ \E reraise \in BOOLEAN : ret' = quick_check(Dir, reraise)
    /\ UNCHANGED <<data_vars, report, edits, runs, cli, raw, conv, dl>>

Next ==
    \/ SetCell
    \/ DropColumn
    \/ DeleteRow
    \/ LoseCsv
    \/ SetSymbols
    \/ RemoveList
    \/ RemoveDir
    \/ Chmod
    \/ Validate
    \/ QuickCheck

Spec == Init /\ [][Next]_vars

----------------------------------------------------------------------------
\* A directory with a table of more lines than quick_check reads.

LongDays == 6

\* The table of the generated test data: every instrument on LongDays
\* consecutive days.
LongRows ==
    [i \in 1..(2 * LongDays) |->
        IF i <= LongDays THEN Row("A", 2 * (i - 1), 10, 14, 7, 10, 5)
        ELSE Row("B", 2 * (i - LongDays - 1), 10, 14, 7, 10, 5)]

InitLong ==
    /\ dirs = {"root", "features", "instruments"}
    /\ locked = {}
    /\ readonly = FALSE
    /\ csv = "table"
    /\ columns = DataColumns
    /\ rows = LongRows
    /\ list = "present"
    /\ symbols = {"A", "B"}
    /\ report = NoReport
    /\ ret = NoCall
    /\ edits = 0
    /\ runs = NoRuns
    /\ cli = NoCommand
    /\ raw = FixtureData
    /\ conv = NoConversion
    /\ dl = NoDownload

\* A line of data.csv gets a field too many.
GarbleLine ==
    /\ Edit
    /\ csv = "table"
    /\ \E i \in DOMAIN rows :
         /\ ~TooManyFields(rows[i])
         /\ rows' = [rows EXCEPT ![i] = [col \in DataColumns \cup {"extra"} |->
                                            IF col = "extra" THEN N(0) ELSE rows[i][col]]]
    /\ UNCHANGED <<dirs, locked, readonly, csv, columns, list, symbols, report>>

NextLong ==
    \/ GarbleLine
    \/ DropColumn
    \/ LoseCsv
    \/ RemoveList
    \/ RemoveDir
    \/ Chmod
    \/ Validate
    \/ QuickCheck

SpecLong == InitLong /\ [][NextLong]_vars

----------------------------------------------------------------------------
\* Runs of validate with changes of the directory between them.

\* The environment changes the directory, before a run or after one.
Change ==
    /\ edits < MaxEdits
    /\ edits' = edits + 1
    /\ UNCHANGED <<ret, runs, cli, raw, conv, dl>>

\* A close of the table is rewritten.
ChangeClose ==
    /\ Change
    /\ csv = "table"
    /\ \E i \in DOMAIN rows :
         \E v \in CellValues("$close") :
            /\ rows[i]["$close"] # v
            /\ rows' = [rows EXCEPT ![i]["$close"] = v]
    /\ UNCHANGED <<dirs, locked, readonly, csv, columns, list, symbols, report>>

\* data.csv is rewritten without one of its columns.
ChangeColumns ==
    /\ Change
    /\ csv = "table"
    /\ \E col \in columns : columns' = columns \ {col}
    /\ UNCHANGED <<dirs, locked, readonly, csv, rows, list, symbols, report>>

\* all.txt is rewritten with a symbol more or less, or removed.
ChangeList ==
    /\ Change
    /\ list = "present"
    /\ \/ \E s \in Symbols :
             /\ symbols' = IF s \in symbols THEN symbols \ {s} ELSE symbols \cup {s}
             /\ UNCHANGED list
       \/ list' = "missing" /\ symbols' = {}
    /\ UNCHANGED <<dirs, locked, readonly, csv, columns, rows, report>>

\* chmod, as Chmod.
ChangeMode ==
    /\ Change
    /\ \/ \E dir \in dirs \ locked : locked' = locked \cup {dir} /\ UNCHANGED readonly
       \/ "root" \in dirs /\ ~readonly /\ readonly' = TRUE /\ UNCHANGED locked
    /\ UNCHANGED <<dirs, csv, columns, rows, list, symbols, report>>

NextRuns ==
    \/ ChangeClose
    \/ ChangeColumns
    \/ ChangeList
    \/ ChangeMode
    \/ Validate

SpecRuns == Init /\ [][NextRuns]_vars

----------------------------------------------------------------------------
\* Two processes running validate_qlib_data on one data directory at the
\* same time.  A run makes its checks, opens validation_report.txt, writes
\* its lines, which stay in the buffer of the file object, and flushes them
\* as the with block closes the file; then it returns.

\* The lines f.write is called with for one entry of issues_detail.
issue_lines(issue) ==
    << <<"type", issue.type>>, <<"issue", issue.issue>> >>
    \o (IF "count" \in DOMAIN issue THEN << <<"count", issue.count>> >> ELSE <<>>)
    \o (IF "detail" \in DOMAIN issue THEN << <<"detail", issue.detail>> >> ELSE <<>>)
    \o << <<"blank">> >>

RECURSIVE issues_lines(_)
issues_lines(issues) ==
    IF issues = <<>> THEN <<>>
    ELSE issue_lines(Head(issues)) \o issues_lines(Tail(issues))

errors_lines(errors) ==
    IF errors = <<>> THEN <<>>
    ELSE << <<"errors_title">> >> \o [i \in DOMAIN errors |-> <<"error", errors[i]>>]
         \o << <<"blank">> >>

stats_lines(stats) ==
    IF stats = EmptyDict THEN <<>>
    ELSE << <<"stats_title">>,
            <<"total_records", stats.total_records>>,
            <<"instruments_count", stats.instruments_count>>,
            <<"date_range", stats.date_range.start, stats.date_range.end>>,
            <<"trading_days", stats.date_range.trading_days>>,
            <<"blank">> >>

\* results['data_quality']['issues_detail'] and the lines after it: none
\* when the KeyError of an empty data_quality ends the block.
quality_lines(data_quality) ==
    IF data_quality = EmptyDict \/ data_quality.issues_detail = <<>> THEN <<>>
    ELSE << <<"quality_title">> >> \o issues_lines(data_quality.issues_detail)

\* The lines a run writes, in the order of the f.write calls; now is the
\* time of the run.  The top-level warnings have lines as the errors have.
report_lines(results, now) ==
    << <<"title">>, <<"time", now>>, <<"data_dir">>,
       <<"status", results.is_valid>>,
       <<"n_errors", Len(results.errors)>>,
       <<"n_warnings", Len(results.warnings)>> >>
    \o errors_lines(results.errors)
    \o errors_lines(results.warnings)
    \o stats_lines(results.stats)
    \o quality_lines(results.data_quality)

\* As open_truncates, the file opened without truncating it.
open_keeps(lines) == lines

\* open(report_file, 'w') on a file that holds lines: nothing is left of it.
open_truncates(lines) == <<>>

\* The buffer flushed: written from the start of the file, over what
\* another process wrote there since the file was opened; what lies behind
\* the text written stays.
flush(lines, pending) ==
    pending \o SubSeq(lines, Len(pending) + 1, Len(lines))

InProgress(p) == runs.run[p].pc \in {"checked", "open"}

\* Lines 41-66: the checks and the except branch around them.
RunChecks ==
    /\ \E p \in Procs :
         /\ runs.run[p].pc = "idle"
         /\ \E reraise \in BOOLEAN :
              \E c \in {checks(Dir, reraise)} :
                 runs' = [runs EXCEPT
                            !.run[p] = [pc |-> "checked", val |-> except_checks(c),
                                        pending |-> <<>>],
                            !.overlapped = @ \/ \E q \in Procs \ {p} : InProgress(q)]
    /\ UNCHANGED <<data_vars, report, ret, edits, cli, raw, conv, dl>>

\* Line 288 and the writes of lines 289-329; when open raises, the except
\* branch logs it and the run returns.
RunOpen ==
    /\ \E p \in Procs :
         /\ runs.run[p].pc = "checked"
         /\ IF open_write(Dir).exc # ""
            THEN /\ runs' = [runs EXCEPT !.run[p].pc = "done", !.last = p]
                 /\ UNCHANGED report
            ELSE /\ runs' = [runs EXCEPT
                               !.run[p].pc = "open",
                               !.run[p].pending = report_lines(runs.run[p].val, p)]
                 /\ report' = [written |-> TRUE,
                               lines |-> IF report.written THEN open_truncates(report.lines)
                                         ELSE <<>>]
    /\ UNCHANGED <<data_vars, ret, edits, cli, raw, conv, dl>>

\* The end of the with block, and the return of line 76.
RunClose ==
    /\ \E p \in Procs :
         /\ runs.run[p].pc = "open"
         /\ runs' = [runs EXCEPT !.run[p].pc = "done", !.last = p]
         /\ report' = [written |-> TRUE, lines |-> flush(report.lines, runs.run[p].pending)]
    /\ UNCHANGED <<data_vars, ret, edits, cli, raw, conv, dl>>

NextRace ==
    \/ ChangeColumns
    \/ ChangeList
    \/ ChangeMode
    \/ RunChecks
    \/ RunOpen
    \/ RunClose

SpecRace == Init /\ [][NextRace]_vars

----------------------------------------------------------------------------
\* Properties of validate_qlib_data.  A call is made on the directory as the
\* environment left it, so ret is the outcome of validating the directory
\* of the state.

Validated == ret.op = "validate"

\* Both required directories and both required files are there for stat().
StructureComplete ==
    /\ {"root", "features", "instruments"} \subseteq dirs
    /\ locked = {}
    /\ csv # "missing"
    /\ list # "missing"

\* A required directory or a required file does not exist.
SomePathMissing ==
    \/ ~({"root", "features", "instruments"} \subseteq dirs)
    \/ csv = "missing"
    \/ list = "missing"

\* validation_report.txt can be written.
ReportWritable == "root" \in dirs /\ "root" \notin locked /\ ~readonly

\* The feature table cannot be read, or is not of the format the quality
\* checker works on: a required column is missing, or a date or a number is
\* text that is none.
CheckerFails ==
    \/ ~({"root", "features"} \subseteq dirs)
    \/ locked \cap {"root", "features"} # {}
    \/ csv # "table"
    \/ \E col \in DataColumns :
          \/ col \notin columns
          \/ col # "instrument" /\ \E i \in DOMAIN rows : rows[i][col] = Text

\* The quality checker ran to its end on the table of the state.
CheckerCompleted == Validated /\ ret.logged = "" /\ ~CheckerFails

IssuesDetail == ret.val.data_quality.issues_detail

\* The entries of issues_detail of one kind.
IssuesOfKind(kind) == {i \in DOMAIN IssuesDetail : IssuesDetail[i].issue = kind}

\* C1: is_valid as returned by validate is the conjunction of: the structural
\* check passed (both directories and both files are there), the consistency
\* check passed, and data_quality.critical_issues is 0.
C1_IsValidIsConjunction ==
    Validated =>
        ret.val.is_valid =
            (/\ StructureComplete
             /\ _validate_data_files(Dir).valid
             /\ ret.val.data_quality.critical_issues = 0)

\* A directory validate found valid, with a warning in its data quality.
C1_Witness ==
    /\ Validated
    /\ ret.val.is_valid
    /\ StructureComplete
    /\ ret.val.data_quality.warnings > 0

\* C2: validate never raises: whatever the directory is like, it returns the
\* five fields; a failed check and a failure of the orchestration leave
\* is_valid false, and the latter appends an error with the exception text.
C2_ValidateNeverRaises ==
    Validated =>
        /\ ret.exc = ""
        /\ DOMAIN ret.val = {"is_valid", "errors", "warnings", "stats", "data_quality"}
        /\ ~StructureComplete => ~ret.val.is_valid
        /\ ~_validate_data_files(Dir).valid => ~ret.val.is_valid
        /\ CheckerFails => ~ret.val.is_valid
        /\ ret.logged # "" =>
              /\ ~ret.val.is_valid
              /\ ret.val.errors # <<>>
              /\ ret.val.errors[Len(ret.val.errors)] = process_error(ret.logged)

\* The orchestration failed on a directory whose report cannot be written
\* either, and validate returned.
C2_Witness ==
    /\ Validated
    /\ ret.logged = "PermissionError"
    /\ ~ReportWritable
    /\ ret.exc = ""

\* C3: with a required directory or file missing, the structural check
\* returns false without raising (validate logs no exception and reports the
\* incomplete structure), and validate returns is_valid false with errors.
C3_MissingPathIsStructuralFailure ==
    Validated /\ SomePathMissing =>
        /\ ret.logged = ""
        /\ structure_error \in Range(ret.val.errors)
        /\ ~ret.val.is_valid
        /\ ret.val.errors # <<>>

\* C4: when a step of the quality checker raises, data_quality is exactly
\* one critical issue quality_check_failed (critical_issues 1, warnings 0,
\* nothing of what was found before), and validate still returns a result
\* and writes the report.
C4_QualityFailureIsOneCriticalIssue ==
    Validated /\ ret.logged = "" /\ CheckerFails =>
        /\ ret.val.data_quality.critical_issues = 1
        /\ ret.val.data_quality.warnings = 0
        /\ Len(IssuesDetail) = 1
        /\ IssuesDetail[1].type = "critical"
        /\ IssuesDetail[1].issue = "quality_check_failed"
        /\ ret.exc = ""
        /\ ReportWritable =>
              /\ report.written
              /\ report.complete
              /\ report.is_valid = ret.val.is_valid
              /\ Len(report.issues) = 1

\* The checker failed on the text in a volume cell after it had found a
\* price that is not positive.
C4_Witness ==
    /\ Validated
    /\ ret.logged = ""
    /\ columns = DataColumns
    /\ \E i \in DOMAIN rows : rows[i]["$open"] = N(0)
    /\ \E i \in DOMAIN rows : rows[i]["$volume"] = Text
    /\ Len(IssuesDetail) = 1
    /\ report.written

----------------------------------------------------------------------------
\* Properties of the quality checker, for the tables it runs to its end on
\* (the run that fails is the subject of C4).

CriticalIssues == {i \in DOMAIN IssuesDetail : IssuesDetail[i].type = "critical"}

WarningIssues == {i \in DOMAIN IssuesDetail : IssuesDetail[i].type = "warning"}

\* Nothing but the data quality can make the directory invalid.
OnlyQualityCounts == StructureComplete /\ _validate_data_files(Dir).valid

\* The rows with a value <= 0 in a column.
NotPositive(col) == {i \in DOMAIN rows : rows[i][col].kind = "num" /\ rows[i][col].val <= 0}

NegativePriceIssues(col) ==
    {i \in IssuesOfKind("negative_prices") : IssuesDetail[i].column = col}

\* C5: for each price column, there is a critical negative_prices issue
\* naming the column iff some row has a value <= 0 in it; its count is the
\* number of such rows, it is one of the critical issues counted, and
\* is_valid is false.
C5_NegativePricesPerColumn ==
    CheckerCompleted =>
        /\ \A col \in Range(price_columns) :
              /\ Cardinality(NegativePriceIssues(col)) = IF NotPositive(col) # {} THEN 1 ELSE 0
              /\ \A i \in NegativePriceIssues(col) :
                    /\ IssuesDetail[i].type = "critical"
                    /\ IssuesDetail[i].count = Cardinality(NotPositive(col))
              /\ NotPositive(col) # {} => ~ret.val.is_valid
        /\ ret.val.data_quality.critical_issues = Cardinality(CriticalIssues)

\* Two columns have a price that is not positive, one at 0 and one below.
C5_Witness ==
    /\ CheckerCompleted
    /\ \E i \in DOMAIN rows : rows[i]["$high"] = N(0)
    /\ \E i \in DOMAIN rows : rows[i]["$close"] = N(-1)
    /\ Cardinality(IssuesOfKind("negative_prices")) = 2
    /\ ~ret.val.is_valid

\* a >= b, which a missing value does not contradict.
NotBelow(a, b) == a.kind = "num" /\ b.kind = "num" => a.val >= b.val

\* The rows violating high >= low, high >= open, high >= close, low <= open
\* and low <= close.
ViolatingRows ==
    {i \in DOMAIN rows :
        ~(/\ NotBelow(rows[i]["$high"], rows[i]["$low"])
          /\ NotBelow(rows[i]["$high"], rows[i]["$open"])
          /\ NotBelow(rows[i]["$high"], rows[i]["$close"])
          /\ NotBelow(rows[i]["$open"], rows[i]["$low"])
          /\ NotBelow(rows[i]["$close"], rows[i]["$low"]))}

\* C6: there is exactly one critical illogical_ohlc issue iff some row
\* violates the five conditions, and its count is the number of violating
\* rows, each counted once.
C6_IllogicalOhlcCountsRows ==
    CheckerCompleted =>
        /\ Cardinality(IssuesOfKind("illogical_ohlc")) = IF ViolatingRows # {} THEN 1 ELSE 0
        /\ \A i \in IssuesOfKind("illogical_ohlc") :
              /\ IssuesDetail[i].type = "critical"
              /\ IssuesDetail[i].count = Cardinality(ViolatingRows)

\* Two rows violate the conditions, one of them more than one condition, and
\* one only a condition on low.
C6_Witness ==
    /\ CheckerCompleted
    /\ Cardinality(ViolatingRows) = 2
    /\ \E i \in ViolatingRows :
          /\ ~NotBelow(rows[i]["$high"], rows[i]["$low"])
          /\ ~NotBelow(rows[i]["$high"], rows[i]["$open"])
    /\ \E i \in ViolatingRows :
          /\ NotBelow(rows[i]["$high"], rows[i]["$low"])
          /\ ~NotBelow(rows[i]["$open"], rows[i]["$low"])
    /\ IssuesOfKind("illogical_ohlc") # {}

\* The rows with no value in a column.
NullCells(col) ==
    {i \in DOMAIN rows : IF col = "instrument" THEN rows[i][col] = "" ELSE rows[i][col] = Null}

ColumnsWithNulls == {col \in columns : NullCells(col) # {}}

\* C7: with a null cell anywhere there is exactly one critical null_values
\* issue, whose detail maps each column with a null to its number of nulls
\* and has no other column; without a null cell there is none.
C7_OneNullValuesIssue ==
    CheckerCompleted =>
        /\ Cardinality(IssuesOfKind("null_values")) = IF ColumnsWithNulls # {} THEN 1 ELSE 0
        /\ \A i \in IssuesOfKind("null_values") :
              /\ IssuesDetail[i].type = "critical"
              /\ DOMAIN IssuesDetail[i].detail = ColumnsWithNulls
              /\ \A col \in ColumnsWithNulls :
                    IssuesDetail[i].detail[col] = Cardinality(NullCells(col))

\* Two columns have a null, in different rows.
C7_Witness ==
    /\ CheckerCompleted
    /\ Cardinality(ColumnsWithNulls) = 2
    /\ \A col \in ColumnsWithNulls : \A other \in ColumnsWithNulls :
          col = other \/ NullCells(col) # NullCells(other)
    /\ Cardinality(IssuesOfKind("null_values")) = 1

\* C8: with a row of volume <= 0 there is exactly one zero_volume issue, a
\* warning, whose count is the number of such rows; it is counted in warnings
\* and not in critical_issues, and with nothing else wrong is_valid is true.
C8_ZeroVolumeIsWarning ==
    CheckerCompleted =>
        /\ Cardinality(IssuesOfKind("zero_volume")) = IF NotPositive("$volume") # {} THEN 1 ELSE 0
        /\ \A i \in IssuesOfKind("zero_volume") :
              /\ IssuesDetail[i].type = "warning"
              /\ IssuesDetail[i].count = Cardinality(NotPositive("$volume"))
        /\ ret.val.data_quality.warnings = Cardinality(WarningIssues)
        /\ ret.val.data_quality.critical_issues = Cardinality(CriticalIssues)
        /\ OnlyQualityCounts /\ IssuesOfKind("zero_volume") = DOMAIN IssuesDetail
              => ret.val.is_valid

\* Two rows without volume, one at 0 and one below, and the directory valid.
C8_Witness ==
    /\ CheckerCompleted
    /\ \E i \in DOMAIN rows : rows[i]["$volume"] = N(0)
    /\ \E i \in DOMAIN rows : rows[i]["$volume"] = N(-1)
    /\ IssuesOfKind("zero_volume") # {}
    /\ ret.val.data_quality.warnings = 1
    /\ ret.val.is_valid

\* The instruments of the table.
Instruments == {rows[i]["instrument"] : i \in DOMAIN rows} \ {""}

\* The observations of an instrument, sorted by date.
Observations(instrument) ==
    sort_values(rows_of([columns |-> columns, rows |-> rows], instrument))

\* The consecutive observations more than 7 calendar days apart.
CalendarGaps(rs) ==
    {i \in 2..Len(rs) :
        /\ rs[i - 1]["datetime"].kind = "num"
        /\ rs[i]["datetime"].kind = "num"
        /\ DateOf(rs[i]["datetime"].val) - DateOf(rs[i - 1]["datetime"].val) > 7}

InstrumentsWithGaps == {inst \in Instruments : CalendarGaps(Observations(inst)) # {}}

\* C9: consecutive observations of an instrument more than 7 calendar days
\* apart are a large gap; there is exactly one data_discontinuity warning iff
\* some instrument has one, it lists every such instrument with its number
\* of large gaps, and with nothing else wrong is_valid is true.
C9_LargeGapsByCalendarDays ==
    CheckerCompleted =>
        /\ Cardinality(IssuesOfKind("data_discontinuity")) =
              IF InstrumentsWithGaps # {} THEN 1 ELSE 0
        /\ \A i \in IssuesOfKind("data_discontinuity") :
              /\ IssuesDetail[i].type = "warning"
              /\ Range(IssuesDetail[i].instruments) =
                    {[instrument |-> inst,
                      large_gaps |-> Cardinality(CalendarGaps(Observations(inst)))] :
                        inst \in InstrumentsWithGaps}
        /\ OnlyQualityCounts /\ IssuesOfKind("data_discontinuity") = DOMAIN IssuesDetail
              => ret.val.is_valid

\* Every close of the table is a positive number.
ClosesPositive ==
    \A i \in DOMAIN rows : rows[i]["$close"].kind = "num" /\ rows[i]["$close"].val > 0

\* The consecutive observations whose close changes by more than 30%:
\* |cur - prev| / prev > 3 / 10.
ExtremeMoves(rs) ==
    {i \in 2..Len(rs) :
        10 * Abs(rs[i]["$close"].val - rs[i - 1]["$close"].val) > 3 * rs[i - 1]["$close"].val}

InstrumentsWithExtremeMoves == {inst \in Instruments : ExtremeMoves(Observations(inst)) # {}}

\* C10: consecutive observations of an instrument whose close changes by
\* more than 30% in absolute value, and not by exactly 30%, are an extreme
\* move; there is exactly one extreme_price_changes warning iff some
\* instrument has one, it lists every such instrument with its count, and it
\* is no critical issue.
C10_ExtremeMovesOverThirtyPercent ==
    CheckerCompleted /\ ClosesPositive =>
        /\ Cardinality(IssuesOfKind("extreme_price_changes")) =
              IF InstrumentsWithExtremeMoves # {} THEN 1 ELSE 0
        /\ \A i \in IssuesOfKind("extreme_price_changes") :
              /\ IssuesDetail[i].type = "warning"
              /\ Range(IssuesDetail[i].instruments) =
                    {[instrument |-> inst,
                      extreme_changes |-> Cardinality(ExtremeMoves(Observations(inst)))] :
                        inst \in InstrumentsWithExtremeMoves}
        /\ ret.val.data_quality.critical_issues = Cardinality(CriticalIssues)

----------------------------------------------------------------------------
\* No cell of the table is empty.
NoNullCell == ColumnsWithNulls = {}

\* Every price of the table is above 0.
PricesPositive == \A col \in Range(price_columns) \cap columns : NotPositive(col) = {}

\* C11: on a table that can be read, has the required columns and holds in
\* them dates and numbers, with no empty cell, no price <= 0 and no row out
\* of the OHLC order, the quality checker returns critical_issues 0 and no
\* critical entry, whatever warnings it reports.
C11_CleanTableHasNoCriticalIssue ==
    CheckerCompleted /\ NoNullCell /\ PricesPositive /\ ViolatingRows = {} =>
        /\ ret.val.data_quality.critical_issues = 0
        /\ CriticalIssues = {}
        /\ _check_data_quality(Dir).critical_issues = 0

\* A clean table with a zero volume and a gap of more than a week: two
\* warnings and no critical issue.
C11_Witness ==
    /\ CheckerCompleted /\ NoNullCell /\ PricesPositive /\ ViolatingRows = {}
    /\ IssuesOfKind("zero_volume") # {}
    /\ IssuesOfKind("data_discontinuity") # {}
    /\ ret.val.data_quality.warnings = 2
    /\ ret.val.data_quality.critical_issues = 0

----------------------------------------------------------------------------
\* Properties of _validate_data_files, seen in validate's errors: the
\* consistency check returned False exactly when data_error was appended.

ConsistencyFailed == data_error \in Range(ret.val.errors)

\* The table was read and lacks a required column.
ColumnMissing == csv = "table" /\ missing_columns([columns |-> columns, rows |-> rows]) # {}

\* C12: the consistency checker returns False only if the feature table is
\* missing a required column: not for an instrument list that is absent or
\* cannot be read, dates that cannot be parsed, or a table that cannot be
\* read.
C12_OnlyMissingColumnsFailConsistency ==
    Validated /\ ret.logged = "" =>
        /\ ConsistencyFailed = ~_validate_data_files(Dir).valid
        /\ ConsistencyFailed => ColumnMissing

\* data.csv can be opened and holds a table.
TableReadable ==
    /\ {"root", "features"} \subseteq dirs
    /\ locked \cap {"root", "features"} = {}
    /\ csv = "table"

\* all.txt can be opened.
ListReadable ==
    /\ {"root", "instruments"} \subseteq dirs
    /\ locked \cap {"root", "instruments"} = {}
    /\ list = "present"

\* Every datetime cell is a date or empty.
DatesParse == \A i \in DOMAIN rows : rows[i]["datetime"] # Text

\* What the consistency check needs to get as far as the stats.
ConsistencyInputsGood ==
    TableReadable /\ DataColumns \subseteq columns /\ DatesParse /\ ListReadable

\* D: the distinct values of the instrument column, the missing value being
\* one of them when a cell is empty.
DistinctInstruments == {rows[i]["instrument"] : i \in DOMAIN rows}

Datetimes == {rows[i]["datetime"].val : i \in {j \in DOMAIN rows : rows[j]["datetime"].kind = "num"}}

CalendarDates == {h \div 2 : h \in Datetimes}

Earliest == IF Datetimes = {} THEN Null ELSE N(CHOOSE h \in Datetimes : \A g \in Datetimes : h <= g)

Latest == IF Datetimes = {} THEN Null ELSE N(CHOOSE h \in Datetimes : \A g \in Datetimes : h >= g)

\* C14: when the consistency check passes, stats.total_records is the
\* number of rows of the table, stats.instruments_count the number of
\* distinct instrument values of the table, and date_range the earliest
\* datetime, the latest datetime and the number of distinct calendar dates;
\* when it fails, stats is empty.
C14_StatsDescribeTheTable ==
    Validated /\ ret.logged = "" =>
        IF ConsistencyFailed
        THEN ret.val.stats = EmptyDict
        ELSE /\ ret.val.stats.total_records = Len(rows)
             /\ ret.val.stats.instruments_count = Cardinality(DistinctInstruments)
             /\ ret.val.stats.date_range.start = Earliest
             /\ ret.val.stats.date_range.end = Latest
             /\ ret.val.stats.date_range.trading_days = Cardinality(CalendarDates)

----------------------------------------------------------------------------
\* Properties of quick_check.

QuickChecked == ret.op = "quick_check"

\* validate's structural check passes, whichever interpreter runs it.
StructuralCheckPasses ==
    \A reraise \in BOOLEAN :
        /\ _validate_directory_structure(Dir, reraise).exc = ""
        /\ _validate_directory_structure(Dir, reraise).val

\* validate's consistency check loads the table and finds every required
\* column in it.
ColumnCheckPasses ==
    /\ read_csv(Dir).exc = ""
    /\ missing_columns(read_csv(Dir).val) = {}

\* The lines of data.csv that have a field too many.
GarbledLines == {i \in DOMAIN rows : TooManyFields(rows[i])}

\* The original statement of C15: quick_check returns true iff validate's
\* structural check and its required-column check would both pass.
C15_QuickCheckIffValidateChecks ==
    QuickChecked => (ret.val = (StructuralCheckPasses /\ ColumnCheckPasses))

\* C15: quick_check returns true iff both required files are there, the
\* first 10 lines of the table can be read and the header has every required
\* column; this is what validate's structural and required-column checks
\* find unless a line after the tenth cannot be read.
C15_QuickCheckReadsTenLines ==
    QuickChecked =>
        /\ ret.val = (/\ StructureComplete
                      /\ csv = "table"
                      /\ \A i \in GarbledLines : i > nrows
                      /\ DataColumns \subseteq columns)
        /\ (\A i \in GarbledLines : i <= nrows) =>
              (ret.val = (StructuralCheckPasses /\ ColumnCheckPasses))

\* quick_check found a table of more than 10 lines usable, whose every line
\* validate can read.
C15_Witness ==
    /\ QuickChecked
    /\ ret.val
    /\ Len(rows) > nrows
    /\ GarbledLines = {}
    /\ StructuralCheckPasses /\ ColumnCheckPasses

\* Reading the first lines of the table fails: the file cannot be opened,
\* is empty, or has a line among them that cannot be parsed.
QuickReadFails ==
    \/ ~TableReadable
    \/ \E i \in GarbledLines : i <= nrows

\* C16: quick_check never raises and returns a boolean; it returns false
\* when a required file is missing, when reading the table fails, and when
\* a required column is absent.
C16_QuickCheckNeverRaises ==
    QuickChecked =>
        /\ ret.exc = ""
        /\ ret.val \in BOOLEAN
        /\ csv = "missing" \/ list = "missing" => ret.val = FALSE
        /\ QuickReadFails => ret.val = FALSE
        /\ read_csv_nrows(Dir, nrows).exc # "" => ret.val = FALSE
        /\ ~(DataColumns \subseteq columns) => ret.val = FALSE

\* Both files are there with every required column, a line among the first
\* ten cannot be parsed, and quick_check returned false.
C16_Witness ==
    /\ QuickChecked
    /\ StructureComplete
    /\ DataColumns \subseteq columns
    /\ read_csv_nrows(Dir, nrows).exc = "ParserError"
    /\ ret.exc = ""
    /\ ret.val = FALSE

----------------------------------------------------------------------------
\* C17: within one validate run features/data.csv is loaded exactly once,
\* and the consistency checker and the quality checker work on the table of
\* that one load.
C17_TableLoadedOncePerRun ==
    Validated /\ ret.logged = "" => Len(ret.loads) = 1

----------------------------------------------------------------------------
\* Two runs of validate one after the other.  No change is made to the
\* directory once a call was made, so the second run finds what the first
\* found.  One interpreter makes both: Path.exists raised in both runs or
\* in neither.
SecondRun == Validated /\ ret'.op = "validate" /\ ret'.logged = ret.logged

\* The original statement of C18: the second run returns the result of the
\* first and leaves an identical report file.
C18_SecondRunLeavesIdenticalReport ==
    [][SecondRun => ret'.val = ret.val /\ report' = report]_vars

\* C18: the second of two runs on an unchanged directory returns the result
\* of the first, which is the result of a run on the directory without a
\* report, and leaves a report that differs from the first in its time
\* alone, which is later.
C18_SecondRunDiffersInTimeOnly ==
    [][SecondRun =>
          /\ ret'.val = ret.val
          /\ \E reraise \in BOOLEAN :
                ret'.val = validate_qlib_data(Dir, reraise, NoReport, 1).val
          /\ report'.written = report.written
          /\ report.written =>
                /\ report' = [report EXCEPT !.time = report'.time]
                /\ report'.time > report.time]_vars

\* A second run has written its report over that of the first, on a
\* directory with errors and a quality issue to report.
C18_Witness ==
    /\ Validated
    /\ report.written
    /\ report.time > 1
    /\ report.errors # <<>>
    /\ report.issues # <<>>

----------------------------------------------------------------------------
\* Writing the report of the result returned fails: validation_report.txt
\* cannot be opened for writing, or rendering the result raises.
ReportFails == write_report(Dir, ret.val, NoReport, 1).exc # ""

\* The directory of the state, data_dir writable.
WritableDir == [Dir EXCEPT !.readonly = FALSE]

\* C19: when writing the report fails, validate raises nothing and returns
\* what the checks alone give: the result it returns on the same directory
\* with data_dir writable.
C19_ReportFailureLeavesResult ==
    Validated /\ ReportFails =>
        /\ ret.exc = ""
        /\ \E reraise \in BOOLEAN :
              /\ ret.logged = checks(Dir, reraise).exc
              /\ ret.val = except_checks(checks(Dir, reraise))
              /\ ret.val = validate_qlib_data(WritableDir, reraise, NoReport, 1).val

\* data_dir is not writable, no report is there, and validate returned a
\* valid result with its stats.
C19_Witness ==
    /\ Validated
    /\ readonly
    /\ ReportFails
    /\ ~report.written
    /\ write_report(WritableDir, ret.val, NoReport, 1).exc = ""
    /\ ret.val.is_valid
    /\ ret.val.stats # EmptyDict

----------------------------------------------------------------------------
\* The report file against the result of the most recent run (ret), with
\* changes of the directory between the runs.

\* The stats block renders the stats of the result, and is left out for
\* empty stats.
StatsRendered ==
    IF ret.val.stats = EmptyDict THEN report.stats = EmptyDict
    ELSE /\ report.stats.total_records = ret.val.stats.total_records
         /\ report.stats.instruments_count = ret.val.stats.instruments_count
         /\ report.stats.start = ret.val.stats.date_range.start
         /\ report.stats.end = ret.val.stats.date_range.end
         /\ report.stats.trading_days = ret.val.stats.date_range.trading_days

\* One block per entry of issues_detail, in order, with its type, its kind
\* and the count or detail it has; no block for a data_quality without
\* entries.
IssuesRendered ==
    IF ret.val.data_quality = EmptyDict THEN report.issues = <<>>
    ELSE /\ Len(report.issues) = Len(IssuesDetail)
         /\ \A i \in DOMAIN IssuesDetail :
               /\ report.issues[i].type = IssuesDetail[i].type
               /\ report.issues[i].issue = IssuesDetail[i].issue
               /\ report.issues[i].count =
                     IF "count" \in DOMAIN IssuesDetail[i] THEN <<IssuesDetail[i].count>> ELSE <<>>
               /\ report.issues[i].detail =
                     IF "detail" \in DOMAIN IssuesDetail[i] THEN <<IssuesDetail[i].detail>> ELSE <<>>

\* C20: after any runs of validate on a writable data directory the report
\* file exists and renders the result of the most recent run and nothing
\* else: the status of its is_valid, the numbers of its errors and
\* warnings, its errors, its stats block and one block per entry of its
\* issues_detail in order.
C20_ReportRendersLastRun ==
    Validated /\ ReportWritable =>
        /\ report.written
        /\ report.is_valid = ret.val.is_valid
        /\ report.n_errors = Len(ret.val.errors)
        /\ report.n_warnings = Len(ret.val.warnings)
        /\ report.errors = ret.val.errors
        /\ report.warnings = ret.val.warnings
        /\ StatsRendered
        /\ IssuesRendered

\* A second run, on a directory changed since the first, found it invalid
\* with an error and an issue, and its report is the one in the directory.
C20_Witness ==
    /\ Validated
    /\ ReportWritable
    /\ report.written
    /\ report.time > 1
    /\ edits > 0
    /\ ~report.is_valid
    /\ report.errors # <<>>
    /\ report.issues # <<>>
    /\ report.stats = EmptyDict

----------------------------------------------------------------------------
\* A step in which the environment changes nothing is a call of validate
\* or of quick_check: every change of the environment is counted in edits.
CallStep == edits' = edits

\* C21: validate and quick_check never create, change or delete data.csv,
\* all.txt or a directory of the layout, nor their permissions: validate
\* writes validation_report.txt and nothing else, and quick_check writes
\* nothing at all.
C21_CallsLeaveTheDataAlone ==
    [][CallStep =>
          /\ data_vars' = data_vars
          /\ ret'.op = "quick_check" => report' = report]_vars

\* quick_check was called after validate had written its report on a
\* directory lacking a required directory: the directory still lacks it and
\* the report is still there.
C21_Witness ==
    /\ ret.op = "quick_check"
    /\ report.written
    /\ "root" \in dirs
    /\ ~({"features", "instruments"} \subseteq dirs)

----------------------------------------------------------------------------
\* Two runs of validate at the same time.

BothReturned == \A p \in Procs : runs.run[p].pc = "done"

\* The run wrote a report: its open did not raise.
WroteReport(p) == runs.run[p].pending # <<>>

\* The report a run writes when it is alone.
OwnReport(p) == report_lines(runs.run[p].val, p)

\* A run makes its checks on the directory as it is then and holds their
\* results from then on, whatever the other run and the report file are at.
ResultAsAlone(p) ==
    /\ runs.run[p].pc = "idle" /\ runs'.run[p].pc # "idle" =>
          \E reraise \in BOOLEAN :
              runs'.run[p].val = validate_qlib_data(Dir, reraise, NoReport, 1).val
    /\ runs.run[p].pc # "idle" => runs'.run[p].val = runs.run[p].val

\* One run after the other: the report file is that of the later run, when
\* it could open the file.
SerializedRunsLeaveLastReport ==
    BothReturned /\ ~runs.overlapped /\ WroteReport(runs.last) =>
        report.written /\ report.lines = OwnReport(runs.last)

\* C22: two interleaved runs of validate race on validation_report.txt
\* alone: a step of a run changes nothing else of the directory, each run
\* returns the result it returns when run alone, and when one run follows
\* the other the report left is that of the later run.  (That the report
\* of interleaved runs may be that of neither is the witness.)
C22_RunsRaceOnTheReportOnly ==
    /\ []SerializedRunsLeaveLastReport
    /\ [][/\ \A p \in Procs : ResultAsAlone(p)
          /\ runs' # runs => data_vars' = data_vars]_vars

\* Both runs wrote their report at the same time and returned, and the
\* file is the report of neither: the lines of one followed by what is left
\* of the longer report of the other.
C22_Witness ==
    /\ BothReturned
    /\ runs.overlapped
    /\ \A p \in Procs : WroteReport(p)
    /\ report.written
    /\ \A p \in Procs : report.lines # OwnReport(p)

----------------------------------------------------------------------------
\* The commands validate and check of data_cli.  A command echoes lines to
\* the standard output and, with err=True, to the standard error; click
\* ends the process with code 0 when the command function returns and with
\* code 1 when an exception leaves it.

\* --output: not given, a path that can be written, or one that cannot.
OutputFiles == {"none", "writable", "unwritable"}

\* shutil.copy(f"{data_dir}/validation_report.txt", output_file)
copy(d, file, output_file) ==
    IF "root" \notin d.dirs THEN Raise("FileNotFoundError")
    ELSE IF "root" \in d.locked THEN Raise("PermissionError")
    ELSE IF ~file.written THEN Raise("FileNotFoundError")
    ELSE IF output_file = "unwritable" THEN Raise("PermissionError")
    ELSE Return(TRUE)

\* if output_file: the copy and its echo
copy_step(d, file, output_file) ==
    IF output_file = "none" THEN [exc |-> "", out |-> <<>>]
    ELSE IF copy(d, file, output_file).exc # ""
    THEN [exc |-> copy(d, file, output_file).exc, out |-> <<>>]
    ELSE [exc |-> "", out |-> << <<"copied", output_file>> >>]

\* The echo of the status: on the standard error when the data is invalid.
status_out(results) == IF results.is_valid THEN << <<"passed">> >> ELSE <<>>
status_err(results) == IF results.is_valid THEN <<>> ELSE << <<"failed">> >>

errors_out(results) ==
    IF results.errors # <<>> THEN << <<"errors", results.errors>> >> ELSE <<>>

warnings_out(results) ==
    IF results.warnings # <<>> THEN << <<"warnings", results.warnings>> >> ELSE <<>>

stats_out(results) ==
    IF results.stats # EmptyDict THEN << <<"stats", stats_block(results.stats)>> >> ELSE <<>>

\* quality.get(key, 0)
get(quality, key) == IF quality = EmptyDict THEN 0 ELSE quality[key]

quality_out(quality) ==
    (IF get(quality, "critical_issues") > 0
     THEN << <<"critical_issues", quality.critical_issues>> >> ELSE <<>>)
    \o (IF get(quality, "warnings") > 0
        THEN << <<"warnings", quality.warnings>> >> ELSE <<>>)

\* The echoes of the summary of the results.
summary_out(results) ==
    << <<"start">> >> \o status_out(results) \o errors_out(results)
        \o warnings_out(results) \o stats_out(results)
        \o quality_out(results.data_quality) \o << <<"saved">> >>

\* The try block of validate_data, after the call of validate_qlib_data.
validate_data_body(call, d, output_file) ==
    IF call.exc # ""
    THEN [exc |-> call.exc, out |-> << <<"start">> >>, err |-> <<>>]
    ELSE [exc |-> copy_step(d, call.file, output_file).exc,
          out |-> summary_out(call.val) \o copy_step(d, call.file, output_file).out,
          err |-> status_err(call.val)]

\* As except_command, without the except branch.
except_command_unguarded(r) == r

\* except Exception as e: logged and echoed to the standard error.
except_command(r) ==
    IF r.exc # ""
    THEN [exc |-> "", out |-> r.out, err |-> Append(r.err, <<"error", r.exc>>)]
    ELSE r

\* The exit code click gives the process.
exit_code(r) == IF r.exc # "" THEN 1 ELSE 0

\* The command as the shell sees it.
command(cmd, r) == [cmd |-> cmd, exit_code |-> exit_code(r), out |-> r.out, err |-> r.err]

validate_data(call, d, output_file) ==
    command("validate", except_command(validate_data_body(call, d, output_file)))

\* The inner try block of the check command: the header of data.csv and
\* the lines of all.txt, nothing echoed after an exception.
details_out(d) ==
    IF read_csv_nrows(d, 0).exc # "" \/ open_read(d, "instruments/all.txt").exc # ""
    THEN <<>>
    ELSE << <<"columns", read_csv_nrows(d, 0).val.columns>>,
            <<"instruments", Cardinality(d.symbols)>> >>

\* The try block of the check command.
check_body(call, d) ==
    IF call.exc # ""
    THEN [exc |-> call.exc, out |-> << <<"start">> >>, err |-> <<>>]
    ELSE IF call.val
    THEN [exc |-> "", out |-> << <<"start">>, <<"usable">> >> \o details_out(d), err |-> <<>>]
    ELSE [exc |-> "", out |-> << <<"start">>, <<"advice">> >>, err |-> << <<"unusable">> >>]

check(call, d) == command("check", except_command(check_body(call, d)))

\* data_dir is removed with all that is in it.
ChangeDir ==
    /\ Change
    /\ "root" \in dirs
    /\ dirs' = {}
    /\ locked' = {}
    /\ csv' = "missing" /\ columns' = {} /\ rows' = <<>>
    /\ list' = "missing" /\ symbols' = {}
    /\ report' = NoReport
    /\ UNCHANGED <<readonly, cli, raw, conv, dl>>

\* data_cli validate --data_dir ... [--output ...]
CliValidate ==
    /\ Now <= MaxRuns
    /\ \E reraise \in BOOLEAN, output_file \in OutputFiles :
         \E call \in {validate_qlib_data(Dir, reraise, report, Now)} :
             /\ cli' = validate_data(call, Dir, output_file)
             /\ report' = call.file
    /\ UNCHANGED <<data_vars, ret, edits, runs, raw, conv, dl>>

\* data_cli check --data_dir ...
CliCheck ==
    /\ \E reraise \in BOOLEAN : cli' = check(quick_check(Dir, reraise), Dir)
    /\ UNCHANGED <<data_vars, report, ret, edits, runs, raw, conv, dl>>

NextCli ==
    \/ ChangeClose
    \/ ChangeColumns
    \/ ChangeList
    \/ ChangeMode
    \/ ChangeDir
    \/ CliValidate
    \/ CliCheck

SpecCli == Init /\ [][NextCli]_vars

\* The command echoed a failure: the data invalid or unusable, or an
\* exception.
FailureEchoed == \E i \in DOMAIN cli.err : cli.err[i][1] \in {"failed", "unusable", "error"}

\* C23: the validate and check commands end with exit code 0 whatever the
\* outcome, an exception inside the command and a failed copy of the report
\* to --output among them; a failure shows in the echoed lines only.
C23_CommandsExitWithZero ==
    /\ cli.exit_code = 0
    /\ cli.cmd # "none" =>
          \/ FailureEchoed
          \/ \E i \in DOMAIN cli.out : cli.out[i][1] \in {"passed", "usable"}

\* validate with --output on a data directory that is not there: nothing
\* to copy, the command echoes the error and ends with code 0.
C23_Witness ==
    /\ cli.cmd = "validate"
    /\ "root" \notin dirs
    /\ \E i \in DOMAIN cli.err : cli.err[i] = <<"error", "FileNotFoundError">>
    /\ cli.exit_code = 0

----------------------------------------------------------------------------
\* C24: in every result of validate the top-level warnings list is empty:
\* the findings of type warning are in data_quality alone, and the report
\* gives 0 as the number of warnings and has no warnings section, also
\* when data_quality counts warnings.
C24_WarningsListStaysEmpty ==
    Validated =>
        /\ ret.val.warnings = <<>>
        /\ ReportWritable => report.n_warnings = 0 /\ report.warnings = <<>>

\* A run that found a warning: it is counted in data_quality and listed in
\* issues_detail, and the report written says 0 warnings.
C24_Witness ==
    /\ Validated
    /\ ret.val.data_quality # EmptyDict
    /\ ret.val.data_quality.warnings > 0
    /\ \E i \in DOMAIN IssuesDetail : IssuesDetail[i].type = "warning"
    /\ ret.val.warnings = <<>>
    /\ report.written
    /\ report.n_warnings = 0

----------------------------------------------------------------------------
\* The place of a finding in the order of the checks.
OrderOfChecks ==
    <<"null_values", "$open", "$high", "$low", "$close", "zero_volume",
      "illogical_ohlc", "data_discontinuity", "extreme_price_changes">>

Place(issue) ==
    CHOOSE k \in DOMAIN OrderOfChecks :
        OrderOfChecks[k] = IF issue.issue = "negative_prices" THEN issue.column ELSE issue.issue

Reverse(s) == [i \in DOMAIN s |-> s[Len(s) + 1 - i]]

RECURSIVE Recount(_, _)
\* The counters after the findings are counted one by one in the order of
\* the sequence.
Recount(issues, q) ==
    IF issues = <<>> THEN q
    ELSE Recount(Tail(issues),
                 IF Head(issues).type = "critical" THEN add_critical(q, Head(issues))
                 ELSE add_warning(q, Head(issues)))

\* C25: issues_detail lists the findings in the order of the checks:
\* null_values, negative_prices of $open, $high, $low, $close, zero_volume,
\* illogical_ohlc, data_discontinuity, extreme_price_changes.  The order
\* is that of the report alone: the counters, and with them is_valid, are
\* the same when the findings are counted in the opposite order.
C25_FindingsInOrderOfChecks ==
    CheckerCompleted =>
        /\ \A i, j \in DOMAIN IssuesDetail :
              i < j => Place(IssuesDetail[i]) < Place(IssuesDetail[j])
        /\ Recount(Reverse(IssuesDetail), no_findings).critical_issues
              = ret.val.data_quality.critical_issues
        /\ Recount(Reverse(IssuesDetail), no_findings).warnings
              = ret.val.data_quality.warnings
        /\ ret.val.is_valid =>
              Recount(Reverse(IssuesDetail), no_findings).critical_issues = 0

\* A table with a volume of zero and a high below the open: the volume
\* finding is listed before the high/low finding.
C25_Witness ==
    /\ CheckerCompleted
    /\ Len(IssuesDetail) = 2
    /\ IssuesDetail[1].issue = "zero_volume"
    /\ IssuesDetail[2].issue = "illogical_ohlc"

----------------------------------------------------------------------------
\* A required file is not in the directory.
RequiredFileLacking == csv = "missing" /\ list = "missing"

\* C26: in every run of validate the structural, the consistency and the
\* quality checker all run, in that order, also after one of them failed,
\* and the report is written from their results before validate returns;
\* so for a directory lacking the required files the result holds the
\* structural error, the consistency error and one critical issue
\* quality_check_failed together.
C26_AllCheckersRunInOrder ==
    Validated =>
        /\ ret.loads = table_loads
        /\ ret.val.data_quality # EmptyDict
        /\ ReportWritable => report.n_errors = Len(ret.val.errors) /\ report.complete
        /\ RequiredFileLacking =>
              /\ ret.val.errors = <<structure_error, data_error>>
              /\ ret.val.data_quality.critical_issues = 1
              /\ Cardinality(IssuesOfKind("quality_check_failed")) = 1

----------------------------------------------------------------------------
\* A directory whose table has a finding of every check.

\* Prices of -1 and a volume of 0 on the first day of A, no volume on its
\* second; B's second day eight days after its first, its high below its
\* open and its close 30% up.
BadRows ==
    <<Row("A", 0, -1, -1, -1, -1, 0),
      [Row("A", 2, 10, 14, 7, 10, 5) EXCEPT !["$volume"] = Null],
      Row("B", 0, 10, 14, 7, 10, 5),
      Row("B", 16, 10, 7, 7, 13, 5)>>

InitBad ==
    /\ dirs = {"root", "features", "instruments"}
    /\ locked = {}
    /\ readonly = FALSE
    /\ csv = "table"
    /\ columns = DataColumns
    /\ rows = BadRows
    /\ list = "present"
    /\ symbols = {"A", "B"}
    /\ report = NoReport
    /\ ret = NoCall
    /\ edits = 0
    /\ runs = NoRuns
    /\ cli = NoCommand
    /\ raw = FixtureData
    /\ conv = NoConversion
    /\ dl = NoDownload

NextBad ==
    \/ SetCell
    \/ DropColumn
    \/ DeleteRow
    \/ Validate

SpecBad == InitBad /\ [][NextBad]_vars

\* The entries of issues_detail of one type.
IssuesOfType(type) == {i \in DOMAIN IssuesDetail : IssuesDetail[i].type = type}

\* Two entries are findings of one check.
SameFinding(a, b) ==
    /\ a.issue = b.issue
    /\ a.issue = "negative_prices" => a.column = b.column

\* C27: in every result of the quality checker, of its try block and of
\* its except branch alike, critical_issues is the number of entries of
\* issues_detail of type critical and warnings the number of those of type
\* warning; no check has two entries (negative_prices one per price
\* column at most), so critical_issues is 6 at most and warnings 3.
C27_CountersCountTheEntries ==
    Validated /\ ret.val.data_quality # EmptyDict =>
        /\ ret.val.data_quality.critical_issues = Cardinality(IssuesOfType("critical"))
        /\ ret.val.data_quality.warnings = Cardinality(IssuesOfType("warning"))
        /\ \A i, j \in DOMAIN IssuesDetail :
              SameFinding(IssuesDetail[i], IssuesDetail[j]) => i = j
        /\ ret.val.data_quality.critical_issues <= 6
        /\ ret.val.data_quality.warnings <= 3

\* A table on which every check finds something: six critical entries and
\* three warnings.
C27_Witness ==
    /\ Validated
    /\ ret.val.data_quality # EmptyDict
    /\ ret.val.data_quality.critical_issues = 6
    /\ ret.val.data_quality.warnings = 3
    /\ Len(IssuesDetail) = 9

----------------------------------------------------------------------------
\* DataConverter.convert_to_qlib_format on a data_dict, and the validator
\* on the directory it writes.

\* The strings pd.read_csv takes for a missing value, and those it takes
\* for a number, among the symbols of the model.
na_values == {"NA"}
number_texts == {"600519"}

\* The value read from a cell of numbers.
as_number(text) == IF text = "600519" THEN "600519 (int64)" ELSE text

\* data.to_csv(data_file, index=False): the rows of data.csv, each cell
\* as pd.read_csv reads it back.  A number is written with all its digits
\* and a date as text; the instrument column is read as numbers when all
\* its cells that are not missing values are numbers.
to_csv(rs) ==
    LET texts == {rs[i]["instrument"] : i \in DOMAIN rs}
        numbers == (texts \ na_values) \subseteq number_texts
    IN  [i \in DOMAIN rs |->
            [rs[i] EXCEPT !["instrument"] = IF @ \in na_values THEN ""
                                            ELSE IF numbers THEN as_number(@)
                                            ELSE @]]

\* The output directory after _save_qlib_data, or the exception of the
\* first mkdir; calendars/ is made in output_dir itself.
_save_qlib_data(d, rs, instruments) ==
    IF "root" \notin d.dirs THEN Raise("FileNotFoundError")
    ELSE IF "root" \in d.locked \/ d.readonly THEN Raise("PermissionError")
    ELSE Return([d EXCEPT !.dirs = @ \cup {"features", "instruments"},
                          !.csv = "table",
                          !.columns = Range(columns_order),
                          !.rows = to_csv(rs),
                          !.list = "present",
                          !.symbols = Range(instruments)])

\* The loop over data_dict: the frames standardized, in the order of the dict.
standardized(data_dict) ==
    [k \in DOMAIN data_dict |-> _standardize_data(data_dict[k], data_dict[k].symbol)]

RECURSIVE concat(_, _)
\* pd.concat(all_data, ignore_index=True), from the k-th frame on
concat(frames, k) ==
    IF k > Len(frames) THEN <<>> ELSE frames[k].rows \o concat(frames, k + 1)

RECURSIVE instruments_of(_, _, _)
\* The symbols whose frame was not None, from the k-th on.
instruments_of(data_dict, frames, k) ==
    IF k > Len(frames) THEN <<>>
    ELSE (IF frames[k].none THEN <<>> ELSE <<data_dict[k].symbol>>)
         \o instruments_of(data_dict, frames, k + 1)

\* The try block of convert_to_qlib_format, given the standardized frames:
\* the value returned and the output directory left.
convert_body(d, data_dict, frames) ==
    IF data_dict = <<>> THEN [exc |-> "", val |-> FALSE, dir |-> d]
    ELSE IF \A k \in DOMAIN frames : frames[k].none THEN [exc |-> "", val |-> FALSE, dir |-> d]
    ELSE IF _save_qlib_data(d, concat(frames, 1), instruments_of(data_dict, frames, 1)).exc # ""
    THEN [exc |-> _save_qlib_data(d, concat(frames, 1), instruments_of(data_dict, frames, 1)).exc,
          val |-> FALSE, dir |-> d]
    ELSE [exc |-> "", val |-> TRUE,
          dir |-> _save_qlib_data(d, concat(frames, 1), instruments_of(data_dict, frames, 1)).val]

\* except Exception: return False
except_convert(r) == [op |-> "convert", val |-> r.exc = "" /\ r.val, dir |-> r.dir]

convert_to_qlib_format(d, data_dict) ==
    except_convert(convert_body(d, data_dict, standardized(data_dict)))

\* The keys of data_dict.
RawSymbols == {"A", "B", "NA", "600519"}

\* What a cell of the raw data, or an index value, may be changed to.
RawValues(field) ==
    IF field = "index" THEN {Null, Text, N(1)}
    ELSE IF field = "volume" THEN {Null, Text, N(0)}
    ELSE {Null, Text, N(-1), N(7), N(13)}

\* A converter just made on an output directory that was not there:
\* __init__ makes it with instruments/ and features/ in it.
InitConvert ==
    /\ dirs = {"root", "features", "instruments"}
    /\ locked = {}
    /\ readonly = FALSE
    /\ csv = "missing"
    /\ columns = {}
    /\ rows = <<>>
    /\ list = "missing"
    /\ symbols = {}
    /\ report = NoReport
    /\ ret = NoCall
    /\ edits = 0
    /\ runs = NoRuns
    /\ cli = NoCommand
    /\ raw = FixtureData
    /\ conv = NoConversion
    /\ dl = NoDownload

\* The raw data is prepared before the converter is called.
RawEdit ==
    /\ edits < MaxEdits
    /\ conv.op = "none"
    /\ edits' = edits + 1
    /\ UNCHANGED <<data_vars, report, ret, runs, cli, conv, dl>>

SetRawCell ==
    /\ RawEdit
    /\ \E k \in DOMAIN raw :
         \E i \in DOMAIN raw[k].rows, field \in Range(raw_columns) \cup {"index"} :
            \E v \in RawValues(field) :
               /\ raw[k].rows[i][field] # v
               /\ raw' = [raw EXCEPT ![k].rows[i][field] = v]

DropRawColumn ==
    /\ RawEdit
    /\ \E k \in DOMAIN raw :
         \E c \in raw[k].columns : raw' = [raw EXCEPT ![k].columns = @ \ {c}]

\* A frame is put under another key.
RenameSymbol ==
    /\ RawEdit
    /\ \E k \in DOMAIN raw :
         \E symbol \in RawSymbols \ {raw[j].symbol : j \in DOMAIN raw} :
            raw' = [raw EXCEPT ![k].symbol = symbol]

\* The last frame is taken out of data_dict.
RemoveFrame ==
    /\ RawEdit
    /\ raw # <<>>
    /\ raw' = SubSeq(raw, 1, Len(raw) - 1)

\* converter._standardize_data(data_dict[symbol], symbol)
Standardize ==
    /\ conv.op = "none"
    /\ \E k \in DOMAIN raw :
         conv' = [op |-> "standardize", key |-> k,
                  val |-> _standardize_data(raw[k], raw[k].symbol)]
    /\ UNCHANGED <<data_vars, report, ret, edits, runs, cli, raw, dl>>

\* converter.convert_to_qlib_format(data_dict)
Convert ==
    /\ conv.op = "none"
    /\ \E call \in {convert_to_qlib_format(Dir, raw)} :
         /\ conv' = [op |-> "convert", val |-> call.val]
         /\ dirs' = call.dir.dirs
         /\ csv' = call.dir.csv
         /\ columns' = call.dir.columns
         /\ rows' = call.dir.rows
         /\ list' = call.dir.list
         /\ symbols' = call.dir.symbols
    /\ UNCHANGED <<locked, readonly, report, ret, edits, runs, cli, raw, dl>>

\* The validator on the output directory of the conversion.
ValidateOutput == conv.op = "convert" /\ Validate

QuickCheckOutput == conv.op = "convert" /\ QuickCheck

NextConvert ==
    \/ SetRawCell
    \/ DropRawColumn
    \/ RenameSymbol
    \/ RemoveFrame
    \/ Standardize
    \/ Convert
    \/ ValidateOutput
    \/ QuickCheckOutput

SpecConvert == InitConvert /\ [][NextConvert]_vars

----------------------------------------------------------------------------
\* Properties of _standardize_data

Standardized == conv.op = "standardize"

\* The frame the method was called on and the rows it returned.
Input == raw[conv.key]
Returned == conv.val.rows

\* An input row that violates nothing: a date, five numbers, a volume and
\* prices above 0, and low <= open, close <= high.
Sound(r) ==
    /\ IsNum(r.index)
    /\ \A c \in Range(raw_columns) : IsNum(r[c])
    /\ r.volume.val > 0
    /\ \A c \in {"open", "high", "low", "close"} : r[c].val > 0
    /\ r.low.val <= r.open.val /\ r.low.val <= r.close.val
    /\ r.open.val <= r.high.val /\ r.close.val <= r.high.val

SoundRows == SelectSeq(Input.rows, LAMBDA r : Sound(r))

\* The output row of an input row: the symbol, the date of the index
\* value, and the five cells under their new names.
OutputRow(r) ==
    Row(Input.symbol, 2 * DateOf(r.index.val), r.open.val, r.high.val, r.low.val,
        r.close.val, r.volume.val)

\* A cell of the raw data, or an index value, that is text.
TextInInput ==
    \E i \in DOMAIN Input.rows :
        \E field \in Range(raw_columns) \cup {"index"} : Input.rows[i][field] = Text

\* C28: every row _standardize_data returns has no null field, a volume
\* and four prices above 0 and low <= open, close <= high; the rows
\* returned are the input rows that violate none of these, the others
\* dropped; and the result is None when a required column is missing or no
\* row is left (and otherwise only after text in the raw data).
C28_StandardizedRowsAreSound ==
    Standardized =>
        /\ \A i \in DOMAIN Returned :
              /\ Returned[i]["instrument"] = Input.symbol
              /\ \A col \in DataColumns \ {"instrument"} : IsNum(Returned[i][col])
              /\ Returned[i]["$volume"].val > 0
              /\ \A col \in Range(price_columns) : Returned[i][col].val > 0
              /\ Returned[i]["$low"].val <= Returned[i]["$open"].val
              /\ Returned[i]["$low"].val <= Returned[i]["$close"].val
              /\ Returned[i]["$open"].val <= Returned[i]["$high"].val
              /\ Returned[i]["$close"].val <= Returned[i]["$high"].val
        /\ ~conv.val.none =>
              Returned = [i \in DOMAIN SoundRows |-> OutputRow(SoundRows[i])]
        /\ ~(Range(raw_columns) \subseteq Input.columns) => conv.val.none
        /\ SoundRows = <<>> => conv.val.none
        /\ conv.val.none =>
              \/ ~(Range(raw_columns) \subseteq Input.columns)
              \/ SoundRows = <<>>
              \/ TextInInput

\* A frame of two rows, one with its high below its open and not below its
\* low: the other row is returned alone.
C28_Witness ==
    /\ Standardized
    /\ ~conv.val.none
    /\ Len(Input.rows) = 2
    /\ Len(Returned) = 1
    /\ \E i \in DOMAIN Input.rows :
          /\ IsNum(Input.rows[i].high) /\ IsNum(Input.rows[i].low) /\ IsNum(Input.rows[i].open)
          /\ Input.rows[i].high.val >= Input.rows[i].low.val
          /\ Input.rows[i].high.val < Input.rows[i].open.val

----------------------------------------------------------------------------
\* The conversion returned True.
Converted == conv.op = "convert" /\ conv.val

\* C29: whenever convert_to_qlib_format returns True, the directory it
\* wrote passes the validator: quick_check returns True, and validate
\* returns is_valid True with no critical issue, no zero_volume warning,
\* and neither a listed instrument missing in the table nor an instrument
\* of the table missing in the list.
C29_ConvertedOutputPassesValidator ==
    Converted =>
        /\ QuickChecked => ret.val
        /\ Validated =>
              /\ ret.val.is_valid
              /\ ret.val.data_quality.critical_issues = 0
              /\ IssuesOfKind("zero_volume") = {}
              /\ ret.val.stats.missing_in_data = 0
              /\ ret.val.stats.missing_in_file = 0

----------------------------------------------------------------------------
\* DataDownloader.download_yahoo_finance.  A step is one pass of the inner
\* loop: ticker.history answers with data or with an empty frame, or it
\* raises (Yahoo's rate limit, or something else), or data.to_csv raises.

MaxSymbols == 2

\* The lists of symbols a call is made with.
SymbolLists ==
    UNION {[1..n -> {"A", "B"}] : n \in 0..MaxSymbols}

\* The symbol of the outer loop.
symbol_of(s) == s.symbols[s.k]

\* The outer loop goes on with the next symbol, or the method returns results.
next_symbol(s) ==
    [s EXCEPT !.k = @ + 1, !.attempt = 0, !.retry_delay = retry_delay,
              !.pc = IF s.k + 1 > Len(s.symbols) THEN "returned" ELSE "loop"]

\* The inner loop goes on: range(max_retries) gives the next attempt or ends.
next_attempt(s) ==
    IF s.attempt + 1 < max_retries THEN [s EXCEPT !.attempt = @ + 1] ELSE next_symbol(s)

\* results[symbol] = data
set_result(s) == [s EXCEPT !.results = @ \cup {symbol_of(s)}]

\* data.to_csv(output_file), then break
save_and_break(s) == next_symbol([s EXCEPT !.files = @ \cup {symbol_of(s)}])

\* if data.empty: failed_symbols.append(symbol), break
empty_and_break(s) == next_symbol([s EXCEPT !.failed_symbols = Append(@, symbol_of(s))])

\* except Exception as e: a rate limit before the last attempt is waited
\* for; any other exception is logged, and the symbol failed on the last
\* attempt.
except_attempt(s, rate_limit) ==
    IF rate_limit /\ s.attempt < max_retries - 1
    THEN next_attempt([s EXCEPT !.retry_delay = @ * 2])
    ELSE IF s.attempt = max_retries - 1
    THEN next_attempt([s EXCEPT !.failed_symbols = Append(@, symbol_of(s))])
    ELSE next_attempt(s)

\* downloader.download_yahoo_finance(symbols, start_date, end_date), up to
\* the first pass of the inner loop.
Download ==
    /\ dl.pc = "idle"
    /\ \E list_of_symbols \in SymbolLists :
         dl' = [NoDownload EXCEPT !.symbols = list_of_symbols,
                                  !.pc = IF list_of_symbols = <<>> THEN "returned" ELSE "loop"]
    /\ UNCHANGED <<data_vars, report, ret, edits, runs, cli, raw, conv>>

Pass ==
    /\ dl.pc = "loop"
    /\ UNCHANGED <<data_vars, report, ret, edits, runs, cli, raw, conv>>

\* history returns data, which is saved.
FetchData == Pass /\ dl' = save_and_break(set_result(dl))

\* history returns an empty frame.
FetchEmpty == Pass /\ dl' = empty_and_break(dl)

\* history raises with "rate limit" or "too many requests" in its message.
FetchRateLimit == Pass /\ dl' = except_attempt(dl, TRUE)

\* history raises something else.
FetchError == Pass /\ dl' = except_attempt(dl, FALSE)

\* history returns data and to_csv raises.
SaveError == Pass /\ dl' = except_attempt(set_result(dl), FALSE)

NextDownload ==
    \/ Download
    \/ FetchData
    \/ FetchEmpty
    \/ FetchRateLimit
    \/ FetchError
    \/ SaveError

SpecDownload == Init /\ [][NextDownload]_vars

\* C30: whatever the symbols and the outcomes of the fetches (data, no
\* data, a rate limit, another error, an error of the save), the call makes
\* three attempts per symbol at most and returns, and every symbol asked
\* for is then either in the results returned or in failed_symbols, never
\* in both and never in neither.
C30_EverySymbolInResultsOrFailed ==
    /\ dl.attempt < max_retries
    /\ dl.pc = "returned" =>
          \A symbol \in Range(dl.symbols) :
              (symbol \in dl.results) # (symbol \in Range(dl.failed_symbols))
====
